---- MODULE Spec2Model ----
(***************************************************************************)
(* A model of compareCSV.py: the CSV loader, the predicate filters, the    *)
(* keyed index builder and the key-based comparison of two CSV files.      *)
(*                                                                         *)
(* A text is the tuple of its Unicode code points, which is what Python's  *)
(* ordering, startswith, strip, lower, repr and the regex work on.  A      *)
(* Python value is tagged with its type: Str(s), None or List(items).  A   *)
(* CSV file is its header and its raw data rows (each a tuple of texts).   *)
(* A dict is a sequence of [k, v] pairs with distinct keys, in insertion   *)
(* order.  A path and the message of an exception are TLA+ strings: the    *)
(* program only passes them on.                                            *)
(***************************************************************************)
EXTENDS Integers, Sequences, FiniteSets, TLC

VARIABLES disk, old, unwritable, pc, call, out

vars == <<disk, old, unwritable, pc, call, out>>

(***************************************************************************)
(* Bounds of the model.                                                    *)
(***************************************************************************)
\* The largest number of data rows of an input file.
MaxRows == 2

(***************************************************************************)
(* Python values.                                                          *)
(***************************************************************************)
\* A str, s being its code points.
Str(s) == [type |-> "str", val |-> s]

\* None: csv.DictReader's restval (the value of a field that a short data row
\* does not have) and its restkey (the key of the fields that a long data
\* row has beyond the header).
None == [type |-> "NoneType"]

\* A list of texts: what csv.DictReader stores under restkey.
List(items) == [type |-> "list", items |-> items]

\* An absent optional path (None or ""): `if output_path:` is false for it.
NoPath == ""

\* The texts the program names: the columns of the differences file, the
\* column filter_rows_by_column_value reads, the column main filters on.
Column == <<99, 111, 108, 117, 109, 110>>
ValueFile1 == <<118, 97, 108, 117, 101, 95, 102, 105, 108, 101, 49>>
ValueFile2 == <<118, 97, 108, 117, 101, 95, 102, 105, 108, 101, 50>>
AttributeColumn == <<65, 116, 116, 114, 105, 98, 117, 116, 101, 32, 50, 32, 118, 97, 108, 117, 101, 40, 115, 41>>
NameColumn == <<78, 97, 109, 101>>

\* str.__lt__: lexicographic order of the code points.
StrLT(x, y) ==
    \E i \in 1..Len(y) :
        /\ i - 1 <= Len(x)
        /\ \A j \in 1..(i - 1) : x[j] = y[j]
        /\ (i > Len(x) \/ x[i] < y[i])

\* The first position at which two different tuples of one length differ.
FirstDiff(k1, k2) ==
    CHOOSE i \in 1..Len(k1) :
        /\ k1[i] # k2[i]
        /\ \A j \in 1..(i - 1) : k1[j] = k2[j]

\* tuple.__lt__ raises TypeError when the first differing elements are a None
\* and a str ('<' not supported between 'NoneType' and 'str').
TupleLTRaises(k1, k2) ==
    /\ k1 # k2
    /\ k1[FirstDiff(k1, k2)].type # k2[FirstDiff(k1, k2)].type

\* tuple.__lt__ on tuples of strs of one length.
TupleLT(k1, k2) ==
    /\ k1 # k2
    /\ StrLT(k1[FirstDiff(k1, k2)].val, k2[FirstDiff(k1, k2)].val)

\* sorted(keys) raises TypeError exactly when two of the keys cannot be
\* ordered: any comparison sort has to compare the two keys that would be
\* neighbours in the result.
SortedRaises(keys) == \E k1 \in keys : \E k2 \in keys : TupleLTRaises(k1, k2)

\* sorted(keys), when it does not raise: the keys in ascending order.
RECURSIVE Sorted(_)
Sorted(keys) ==
    IF keys = {} THEN << >>
    ELSE LET m == CHOOSE k \in keys : \A o \in keys \ {k} : TupleLT(k, o)
         IN  <<m>> \o Sorted(keys \ {m})

(***************************************************************************)
(* Unicode: what str.strip, str.lower and the regex classes rest on.       *)
(***************************************************************************)
\* The code points str.strip() removes from both ends (str.isspace).
Whitespace ==
    {9, 10, 11, 12, 13, 28, 29, 30, 31, 32, 133, 160, 5760, 8192, 8193, 8194,
     8195, 8196, 8197, 8198, 8199, 8200, 8201, 8202, 8232, 8233, 8239, 8287,
     12288}

\* str.lower() beyond ASCII, for the characters it maps to one other
\* character: <<first, last, step, offset>> maps first, first + step, ...,
\* last to itself plus offset.
LowerRanges ==
    {<<192, 214, 1, 32>>, <<216, 222, 1, 32>>, <<256, 302, 2, 1>>, <<306, 310,
     2, 1>>, <<313, 327, 2, 1>>, <<330, 374, 2, 1>>, <<376, 376, 1, -121>>,
     <<377, 381, 2, 1>>, <<385, 385, 1, 210>>, <<386, 388, 2, 1>>, <<390, 390,
     1, 206>>, <<391, 391, 1, 1>>, <<393, 394, 1, 205>>, <<395, 395, 1, 1>>,
     <<398, 398, 1, 79>>, <<399, 399, 1, 202>>, <<400, 400, 1, 203>>, <<401,
     401, 1, 1>>, <<403, 403, 1, 205>>, <<404, 404, 1, 207>>, <<406, 406, 1,
     211>>, <<407, 407, 1, 209>>, <<408, 408, 1, 1>>, <<412, 412, 1, 211>>,
     <<413, 413, 1, 213>>, <<415, 415, 1, 214>>, <<416, 420, 2, 1>>, <<422,
     422, 1, 218>>, <<423, 423, 1, 1>>, <<425, 425, 1, 218>>, <<428, 428, 1,
     1>>, <<430, 430, 1, 218>>, <<431, 431, 1, 1>>, <<433, 434, 1, 217>>,
     <<435, 437, 2, 1>>, <<439, 439, 1, 219>>, <<440, 440, 1, 1>>, <<444, 444,
     1, 1>>, <<452, 452, 1, 2>>, <<453, 453, 1, 1>>, <<455, 455, 1, 2>>, <<456,
     456, 1, 1>>, <<458, 458, 1, 2>>, <<459, 475, 2, 1>>, <<478, 494, 2, 1>>,
     <<497, 497, 1, 2>>, <<498, 500, 2, 1>>, <<502, 502, 1, -97>>, <<503, 503,
     1, -56>>, <<504, 542, 2, 1>>, <<544, 544, 1, -130>>, <<546, 562, 2, 1>>,
     <<570, 570, 1, 10795>>, <<571, 571, 1, 1>>, <<573, 573, 1, -163>>, <<574,
     574, 1, 10792>>, <<577, 577, 1, 1>>, <<579, 579, 1, -195>>, <<580, 580, 1,
     69>>, <<581, 581, 1, 71>>, <<582, 590, 2, 1>>, <<880, 882, 2, 1>>, <<886,
     886, 1, 1>>, <<895, 895, 1, 116>>, <<902, 902, 1, 38>>, <<904, 906, 1,
     37>>, <<908, 908, 1, 64>>, <<910, 911, 1, 63>>, <<913, 929, 1, 32>>,
     <<931, 939, 1, 32>>, <<975, 975, 1, 8>>, <<984, 1006, 2, 1>>, <<1012,
     1012, 1, -60>>, <<1015, 1015, 1, 1>>, <<1017, 1017, 1, -7>>, <<1018, 1018,
     1, 1>>, <<1021, 1023, 1, -130>>, <<1024, 1039, 1, 80>>, <<1040, 1071, 1,
     32>>, <<1120, 1152, 2, 1>>, <<1162, 1214, 2, 1>>, <<1216, 1216, 1, 15>>,
     <<1217, 1229, 2, 1>>, <<1232, 1326, 2, 1>>, <<1329, 1366, 1, 48>>, <<4256,
     4293, 1, 7264>>, <<4295, 4295, 1, 7264>>, <<4301, 4301, 1, 7264>>, <<5024,
     5103, 1, 38864>>, <<5104, 5109, 1, 8>>, <<7312, 7354, 1, -3008>>, <<7357,
     7359, 1, -3008>>, <<7680, 7828, 2, 1>>, <<7838, 7838, 1, -7615>>, <<7840,
     7934, 2, 1>>, <<7944, 7951, 1, -8>>, <<7960, 7965, 1, -8>>, <<7976, 7983,
     1, -8>>, <<7992, 7999, 1, -8>>, <<8008, 8013, 1, -8>>, <<8025, 8031, 2,
     -8>>, <<8040, 8047, 1, -8>>, <<8072, 8079, 1, -8>>, <<8088, 8095, 1, -8>>,
     <<8104, 8111, 1, -8>>, <<8120, 8121, 1, -8>>, <<8122, 8123, 1, -74>>,
     <<8124, 8124, 1, -9>>, <<8136, 8139, 1, -86>>, <<8140, 8140, 1, -9>>,
     <<8152, 8153, 1, -8>>, <<8154, 8155, 1, -100>>, <<8168, 8169, 1, -8>>,
     <<8170, 8171, 1, -112>>, <<8172, 8172, 1, -7>>, <<8184, 8185, 1, -128>>,
     <<8186, 8187, 1, -126>>, <<8188, 8188, 1, -9>>, <<8486, 8486, 1, -7517>>,
     <<8490, 8490, 1, -8383>>, <<8491, 8491, 1, -8262>>, <<8498, 8498, 1, 28>>,
     <<8544, 8559, 1, 16>>, <<8579, 8579, 1, 1>>, <<9398, 9423, 1, 26>>,
     <<11264, 11311, 1, 48>>, <<11360, 11360, 1, 1>>, <<11362, 11362, 1,
     -10743>>, <<11363, 11363, 1, -3814>>, <<11364, 11364, 1, -10727>>,
     <<11367, 11371, 2, 1>>, <<11373, 11373, 1, -10780>>, <<11374, 11374, 1,
     -10749>>, <<11375, 11375, 1, -10783>>, <<11376, 11376, 1, -10782>>,
     <<11378, 11378, 1, 1>>, <<11381, 11381, 1, 1>>, <<11390, 11391, 1,
     -10815>>, <<11392, 11490, 2, 1>>, <<11499, 11501, 2, 1>>, <<11506, 11506,
     1, 1>>, <<42560, 42604, 2, 1>>, <<42624, 42650, 2, 1>>, <<42786, 42798, 2,
     1>>, <<42802, 42862, 2, 1>>, <<42873, 42875, 2, 1>>, <<42877, 42877, 1,
     -35332>>, <<42878, 42886, 2, 1>>, <<42891, 42891, 1, 1>>, <<42893, 42893,
     1, -42280>>, <<42896, 42898, 2, 1>>, <<42902, 42920, 2, 1>>, <<42922,
     42922, 1, -42308>>, <<42923, 42923, 1, -42319>>, <<42924, 42924, 1,
     -42315>>, <<42925, 42925, 1, -42305>>, <<42926, 42926, 1, -42308>>,
     <<42928, 42928, 1, -42258>>, <<42929, 42929, 1, -42282>>, <<42930, 42930,
     1, -42261>>, <<42931, 42931, 1, 928>>, <<42932, 42946, 2, 1>>, <<42948,
     42948, 1, -48>>, <<42949, 42949, 1, -42307>>, <<42950, 42950, 1, -35384>>,
     <<42951, 42953, 2, 1>>, <<42960, 42960, 1, 1>>, <<42966, 42968, 2, 1>>,
     <<42997, 42997, 1, 1>>, <<65313, 65338, 1, 32>>, <<66560, 66599, 1, 40>>,
     <<66736, 66771, 1, 40>>, <<66928, 66938, 1, 39>>, <<66940, 66954, 1, 39>>,
     <<66956, 66962, 1, 39>>, <<66964, 66965, 1, 39>>, <<68736, 68786, 1, 64>>,
     <<71840, 71871, 1, 32>>, <<93760, 93791, 1, 32>>, <<125184, 125217, 1,
     34>>}

\* The Case_Ignorable characters, as <<first, last>> ranges.
CaseIgnorableRanges ==
    {<<39, 39>>, <<46, 46>>, <<58, 58>>, <<94, 94>>, <<96, 96>>, <<168, 168>>,
     <<173, 173>>, <<175, 175>>, <<180, 180>>, <<183, 184>>, <<688, 879>>,
     <<884, 885>>, <<890, 890>>, <<900, 901>>, <<903, 903>>, <<1155, 1161>>,
     <<1369, 1369>>, <<1375, 1375>>, <<1425, 1469>>, <<1471, 1471>>, <<1473,
     1474>>, <<1476, 1477>>, <<1479, 1479>>, <<1524, 1524>>, <<1536, 1541>>,
     <<1552, 1562>>, <<1564, 1564>>, <<1600, 1600>>, <<1611, 1631>>, <<1648,
     1648>>, <<1750, 1757>>, <<1759, 1768>>, <<1770, 1773>>, <<1807, 1807>>,
     <<1809, 1809>>, <<1840, 1866>>, <<1958, 1968>>, <<2027, 2037>>, <<2042,
     2042>>, <<2045, 2045>>, <<2070, 2093>>, <<2137, 2139>>, <<2184, 2184>>,
     <<2192, 2193>>, <<2200, 2207>>, <<2249, 2306>>, <<2362, 2362>>, <<2364,
     2364>>, <<2369, 2376>>, <<2381, 2381>>, <<2385, 2391>>, <<2402, 2403>>,
     <<2417, 2417>>, <<2433, 2433>>, <<2492, 2492>>, <<2497, 2500>>, <<2509,
     2509>>, <<2530, 2531>>, <<2558, 2558>>, <<2561, 2562>>, <<2620, 2620>>,
     <<2625, 2626>>, <<2631, 2632>>, <<2635, 2637>>, <<2641, 2641>>, <<2672,
     2673>>, <<2677, 2677>>, <<2689, 2690>>, <<2748, 2748>>, <<2753, 2757>>,
     <<2759, 2760>>, <<2765, 2765>>, <<2786, 2787>>, <<2810, 2815>>, <<2817,
     2817>>, <<2876, 2876>>, <<2879, 2879>>, <<2881, 2884>>, <<2893, 2893>>,
     <<2901, 2902>>, <<2914, 2915>>, <<2946, 2946>>, <<3008, 3008>>, <<3021,
     3021>>, <<3072, 3072>>, <<3076, 3076>>, <<3132, 3132>>, <<3134, 3136>>,
     <<3142, 3144>>, <<3146, 3149>>, <<3157, 3158>>, <<3170, 3171>>, <<3201,
     3201>>, <<3260, 3260>>, <<3263, 3263>>, <<3270, 3270>>, <<3276, 3277>>,
     <<3298, 3299>>, <<3328, 3329>>, <<3387, 3388>>, <<3393, 3396>>, <<3405,
     3405>>, <<3426, 3427>>, <<3457, 3457>>, <<3530, 3530>>, <<3538, 3540>>,
     <<3542, 3542>>, <<3633, 3633>>, <<3636, 3642>>, <<3654, 3662>>, <<3761,
     3761>>, <<3764, 3772>>, <<3782, 3782>>, <<3784, 3789>>, <<3864, 3865>>,
     <<3893, 3893>>, <<3895, 3895>>, <<3897, 3897>>, <<3953, 3966>>, <<3968,
     3972>>, <<3974, 3975>>, <<3981, 3991>>, <<3993, 4028>>, <<4038, 4038>>,
     <<4141, 4144>>, <<4146, 4151>>, <<4153, 4154>>, <<4157, 4158>>, <<4184,
     4185>>, <<4190, 4192>>, <<4209, 4212>>, <<4226, 4226>>, <<4229, 4230>>,
     <<4237, 4237>>, <<4253, 4253>>, <<4348, 4348>>, <<4957, 4959>>, <<5906,
     5908>>, <<5938, 5939>>, <<5970, 5971>>, <<6002, 6003>>, <<6068, 6069>>,
     <<6071, 6077>>, <<6086, 6086>>, <<6089, 6099>>, <<6103, 6103>>, <<6109,
     6109>>, <<6155, 6159>>, <<6211, 6211>>, <<6277, 6278>>, <<6313, 6313>>,
     <<6432, 6434>>, <<6439, 6440>>, <<6450, 6450>>, <<6457, 6459>>, <<6679,
     6680>>, <<6683, 6683>>, <<6742, 6742>>, <<6744, 6750>>, <<6752, 6752>>,
     <<6754, 6754>>, <<6757, 6764>>, <<6771, 6780>>, <<6783, 6783>>, <<6823,
     6823>>, <<6832, 6862>>, <<6912, 6915>>, <<6964, 6964>>, <<6966, 6970>>,
     <<6972, 6972>>, <<6978, 6978>>, <<7019, 7027>>, <<7040, 7041>>, <<7074,
     7077>>, <<7080, 7081>>, <<7083, 7085>>, <<7142, 7142>>, <<7144, 7145>>,
     <<7149, 7149>>, <<7151, 7153>>, <<7212, 7219>>, <<7222, 7223>>, <<7288,
     7293>>, <<7376, 7378>>, <<7380, 7392>>, <<7394, 7400>>, <<7405, 7405>>,
     <<7412, 7412>>, <<7416, 7417>>, <<7468, 7530>>, <<7544, 7544>>, <<7579,
     7679>>, <<8125, 8125>>, <<8127, 8129>>, <<8141, 8143>>, <<8157, 8159>>,
     <<8173, 8175>>, <<8189, 8190>>, <<8203, 8207>>, <<8216, 8217>>, <<8228,
     8228>>, <<8231, 8231>>, <<8234, 8238>>, <<8288, 8292>>, <<8294, 8303>>,
     <<8305, 8305>>, <<8319, 8319>>, <<8336, 8348>>, <<8400, 8432>>, <<11388,
     11389>>, <<11503, 11505>>, <<11631, 11631>>, <<11647, 11647>>, <<11744,
     11775>>, <<11823, 11823>>, <<12293, 12293>>, <<12330, 12333>>, <<12337,
     12341>>, <<12347, 12347>>, <<12441, 12446>>, <<12540, 12542>>, <<40981,
     40981>>, <<42232, 42237>>, <<42508, 42508>>, <<42607, 42610>>, <<42612,
     42621>>, <<42623, 42623>>, <<42652, 42655>>, <<42736, 42737>>, <<42752,
     42785>>, <<42864, 42864>>, <<42888, 42890>>, <<42994, 42996>>, <<43000,
     43001>>, <<43010, 43010>>, <<43014, 43014>>, <<43019, 43019>>, <<43045,
     43046>>, <<43052, 43052>>, <<43204, 43205>>, <<43232, 43249>>, <<43263,
     43263>>, <<43302, 43309>>, <<43335, 43345>>, <<43392, 43394>>, <<43443,
     43443>>, <<43446, 43449>>, <<43452, 43453>>, <<43471, 43471>>, <<43493,
     43494>>, <<43561, 43566>>, <<43569, 43570>>, <<43573, 43574>>, <<43587,
     43587>>, <<43596, 43596>>, <<43632, 43632>>, <<43644, 43644>>, <<43696,
     43696>>, <<43698, 43700>>, <<43703, 43704>>, <<43710, 43711>>, <<43713,
     43713>>, <<43741, 43741>>, <<43756, 43757>>, <<43763, 43764>>, <<43766,
     43766>>, <<43867, 43871>>, <<43881, 43883>>, <<44005, 44005>>, <<44008,
     44008>>, <<44013, 44013>>, <<64286, 64286>>, <<64434, 64450>>, <<65024,
     65039>>, <<65043, 65043>>, <<65056, 65071>>, <<65106, 65106>>, <<65109,
     65109>>, <<65279, 65279>>, <<65287, 65287>>, <<65294, 65294>>, <<65306,
     65306>>, <<65342, 65342>>, <<65344, 65344>>, <<65392, 65392>>, <<65438,
     65439>>, <<65507, 65507>>, <<65529, 65531>>, <<66045, 66045>>, <<66272,
     66272>>, <<66422, 66426>>, <<67456, 67461>>, <<67463, 67504>>, <<67506,
     67514>>, <<68097, 68099>>, <<68101, 68102>>, <<68108, 68111>>, <<68152,
     68154>>, <<68159, 68159>>, <<68325, 68326>>, <<68900, 68903>>, <<69291,
     69292>>, <<69446, 69456>>, <<69506, 69509>>, <<69633, 69633>>, <<69688,
     69702>>, <<69744, 69744>>, <<69747, 69748>>, <<69759, 69761>>, <<69811,
     69814>>, <<69817, 69818>>, <<69821, 69821>>, <<69826, 69826>>, <<69837,
     69837>>, <<69888, 69890>>, <<69927, 69931>>, <<69933, 69940>>, <<70003,
     70003>>, <<70016, 70017>>, <<70070, 70078>>, <<70089, 70092>>, <<70095,
     70095>>, <<70191, 70193>>, <<70196, 70196>>, <<70198, 70199>>, <<70206,
     70206>>, <<70367, 70367>>, <<70371, 70378>>, <<70400, 70401>>, <<70459,
     70460>>, <<70464, 70464>>, <<70502, 70508>>, <<70512, 70516>>, <<70712,
     70719>>, <<70722, 70724>>, <<70726, 70726>>, <<70750, 70750>>, <<70835,
     70840>>, <<70842, 70842>>, <<70847, 70848>>, <<70850, 70851>>, <<71090,
     71093>>, <<71100, 71101>>, <<71103, 71104>>, <<71132, 71133>>, <<71219,
     71226>>, <<71229, 71229>>, <<71231, 71232>>, <<71339, 71339>>, <<71341,
     71341>>, <<71344, 71349>>, <<71351, 71351>>, <<71453, 71455>>, <<71458,
     71461>>, <<71463, 71467>>, <<71727, 71735>>, <<71737, 71738>>, <<71995,
     71996>>, <<71998, 71998>>, <<72003, 72003>>, <<72148, 72151>>, <<72154,
     72155>>, <<72160, 72160>>, <<72193, 72202>>, <<72243, 72248>>, <<72251,
     72254>>, <<72263, 72263>>, <<72273, 72278>>, <<72281, 72283>>, <<72330,
     72342>>, <<72344, 72345>>, <<72752, 72758>>, <<72760, 72765>>, <<72767,
     72767>>, <<72850, 72871>>, <<72874, 72880>>, <<72882, 72883>>, <<72885,
     72886>>, <<73009, 73014>>, <<73018, 73018>>, <<73020, 73021>>, <<73023,
     73029>>, <<73031, 73031>>, <<73104, 73105>>, <<73109, 73109>>, <<73111,
     73111>>, <<73459, 73460>>, <<78896, 78904>>, <<92912, 92916>>, <<92976,
     92982>>, <<92992, 92995>>, <<94031, 94031>>, <<94095, 94111>>, <<94176,
     94177>>, <<94179, 94180>>, <<110576, 110579>>, <<110581, 110587>>,
     <<110589, 110590>>, <<113821, 113822>>, <<113824, 113827>>, <<118528,
     118573>>, <<118576, 118598>>, <<119143, 119145>>, <<119155, 119170>>,
     <<119173, 119179>>, <<119210, 119213>>, <<119362, 119364>>, <<121344,
     121398>>, <<121403, 121452>>, <<121461, 121461>>, <<121476, 121476>>,
     <<121499, 121503>>, <<121505, 121519>>, <<122880, 122886>>, <<122888,
     122904>>, <<122907, 122913>>, <<122915, 122916>>, <<122918, 122922>>,
     <<123184, 123197>>, <<123566, 123566>>, <<123628, 123631>>, <<125136,
     125142>>, <<125252, 125259>>, <<127995, 127999>>, <<917505, 917505>>,
     <<917536, 917631>>, <<917760, 917999>>}

\* The Cased characters, as <<first, last>> ranges.
CasedRanges ==
    {<<65, 90>>, <<97, 122>>, <<170, 170>>, <<181, 181>>, <<186, 186>>, <<192,
     214>>, <<216, 246>>, <<248, 442>>, <<444, 447>>, <<452, 659>>, <<661,
     696>>, <<704, 705>>, <<736, 740>>, <<837, 837>>, <<880, 883>>, <<886,
     887>>, <<890, 893>>, <<895, 895>>, <<902, 902>>, <<904, 906>>, <<908,
     908>>, <<910, 929>>, <<931, 1013>>, <<1015, 1153>>, <<1162, 1327>>,
     <<1329, 1366>>, <<1376, 1416>>, <<4256, 4293>>, <<4295, 4295>>, <<4301,
     4301>>, <<4304, 4346>>, <<4349, 4351>>, <<5024, 5109>>, <<5112, 5117>>,
     <<7296, 7304>>, <<7312, 7354>>, <<7357, 7359>>, <<7424, 7615>>, <<7680,
     7957>>, <<7960, 7965>>, <<7968, 8005>>, <<8008, 8013>>, <<8016, 8023>>,
     <<8025, 8025>>, <<8027, 8027>>, <<8029, 8029>>, <<8031, 8061>>, <<8064,
     8116>>, <<8118, 8124>>, <<8126, 8126>>, <<8130, 8132>>, <<8134, 8140>>,
     <<8144, 8147>>, <<8150, 8155>>, <<8160, 8172>>, <<8178, 8180>>, <<8182,
     8188>>, <<8305, 8305>>, <<8319, 8319>>, <<8336, 8348>>, <<8450, 8450>>,
     <<8455, 8455>>, <<8458, 8467>>, <<8469, 8469>>, <<8473, 8477>>, <<8484,
     8484>>, <<8486, 8486>>, <<8488, 8488>>, <<8490, 8493>>, <<8495, 8500>>,
     <<8505, 8505>>, <<8508, 8511>>, <<8517, 8521>>, <<8526, 8526>>, <<8544,
     8575>>, <<8579, 8580>>, <<9398, 9449>>, <<11264, 11492>>, <<11499,
     11502>>, <<11506, 11507>>, <<11520, 11557>>, <<11559, 11559>>, <<11565,
     11565>>, <<42560, 42605>>, <<42624, 42653>>, <<42786, 42887>>, <<42891,
     42894>>, <<42896, 42954>>, <<42960, 42961>>, <<42963, 42963>>, <<42965,
     42969>>, <<42997, 42998>>, <<43000, 43002>>, <<43824, 43866>>, <<43868,
     43880>>, <<43888, 43967>>, <<64256, 64262>>, <<64275, 64279>>, <<65313,
     65338>>, <<65345, 65370>>, <<66560, 66639>>, <<66736, 66771>>, <<66776,
     66811>>, <<66928, 66938>>, <<66940, 66954>>, <<66956, 66962>>, <<66964,
     66965>>, <<66967, 66977>>, <<66979, 66993>>, <<66995, 67001>>, <<67003,
     67004>>, <<67456, 67456>>, <<67459, 67461>>, <<67463, 67504>>, <<67506,
     67514>>, <<68736, 68786>>, <<68800, 68850>>, <<71840, 71903>>, <<93760,
     93823>>, <<119808, 119892>>, <<119894, 119964>>, <<119966, 119967>>,
     <<119970, 119970>>, <<119973, 119974>>, <<119977, 119980>>, <<119982,
     119993>>, <<119995, 119995>>, <<119997, 120003>>, <<120005, 120069>>,
     <<120071, 120074>>, <<120077, 120084>>, <<120086, 120092>>, <<120094,
     120121>>, <<120123, 120126>>, <<120128, 120132>>, <<120134, 120134>>,
     <<120138, 120144>>, <<120146, 120485>>, <<120488, 120512>>, <<120514,
     120538>>, <<120540, 120570>>, <<120572, 120596>>, <<120598, 120628>>,
     <<120630, 120654>>, <<120656, 120686>>, <<120688, 120712>>, <<120714,
     120744>>, <<120746, 120770>>, <<120772, 120779>>, <<122624, 122633>>,
     <<122635, 122654>>, <<125184, 125251>>, <<127280, 127305>>, <<127312,
     127337>>, <<127344, 127369>>}

\* The characters the regex class \w matches beyond ASCII (alphanumeric
\* characters), as <<first, last>> ranges.
WordRanges ==
    {<<170, 170>>, <<178, 179>>, <<181, 181>>, <<185, 186>>, <<188, 190>>,
     <<192, 214>>, <<216, 246>>, <<248, 705>>, <<710, 721>>, <<736, 740>>,
     <<748, 748>>, <<750, 750>>, <<880, 884>>, <<886, 887>>, <<890, 893>>,
     <<895, 895>>, <<902, 902>>, <<904, 906>>, <<908, 908>>, <<910, 929>>,
     <<931, 1013>>, <<1015, 1153>>, <<1162, 1327>>, <<1329, 1366>>, <<1369,
     1369>>, <<1376, 1416>>, <<1488, 1514>>, <<1519, 1522>>, <<1568, 1610>>,
     <<1632, 1641>>, <<1646, 1647>>, <<1649, 1747>>, <<1749, 1749>>, <<1765,
     1766>>, <<1774, 1788>>, <<1791, 1791>>, <<1808, 1808>>, <<1810, 1839>>,
     <<1869, 1957>>, <<1969, 1969>>, <<1984, 2026>>, <<2036, 2037>>, <<2042,
     2042>>, <<2048, 2069>>, <<2074, 2074>>, <<2084, 2084>>, <<2088, 2088>>,
     <<2112, 2136>>, <<2144, 2154>>, <<2160, 2183>>, <<2185, 2190>>, <<2208,
     2249>>, <<2308, 2361>>, <<2365, 2365>>, <<2384, 2384>>, <<2392, 2401>>,
     <<2406, 2415>>, <<2417, 2432>>, <<2437, 2444>>, <<2447, 2448>>, <<2451,
     2472>>, <<2474, 2480>>, <<2482, 2482>>, <<2486, 2489>>, <<2493, 2493>>,
     <<2510, 2510>>, <<2524, 2525>>, <<2527, 2529>>, <<2534, 2545>>, <<2548,
     2553>>, <<2556, 2556>>, <<2565, 2570>>, <<2575, 2576>>, <<2579, 2600>>,
     <<2602, 2608>>, <<2610, 2611>>, <<2613, 2614>>, <<2616, 2617>>, <<2649,
     2652>>, <<2654, 2654>>, <<2662, 2671>>, <<2674, 2676>>, <<2693, 2701>>,
     <<2703, 2705>>, <<2707, 2728>>, <<2730, 2736>>, <<2738, 2739>>, <<2741,
     2745>>, <<2749, 2749>>, <<2768, 2768>>, <<2784, 2785>>, <<2790, 2799>>,
     <<2809, 2809>>, <<2821, 2828>>, <<2831, 2832>>, <<2835, 2856>>, <<2858,
     2864>>, <<2866, 2867>>, <<2869, 2873>>, <<2877, 2877>>, <<2908, 2909>>,
     <<2911, 2913>>, <<2918, 2927>>, <<2929, 2935>>, <<2947, 2947>>, <<2949,
     2954>>, <<2958, 2960>>, <<2962, 2965>>, <<2969, 2970>>, <<2972, 2972>>,
     <<2974, 2975>>, <<2979, 2980>>, <<2984, 2986>>, <<2990, 3001>>, <<3024,
     3024>>, <<3046, 3058>>, <<3077, 3084>>, <<3086, 3088>>, <<3090, 3112>>,
     <<3114, 3129>>, <<3133, 3133>>, <<3160, 3162>>, <<3165, 3165>>, <<3168,
     3169>>, <<3174, 3183>>, <<3192, 3198>>, <<3200, 3200>>, <<3205, 3212>>,
     <<3214, 3216>>, <<3218, 3240>>, <<3242, 3251>>, <<3253, 3257>>, <<3261,
     3261>>, <<3293, 3294>>, <<3296, 3297>>, <<3302, 3311>>, <<3313, 3314>>,
     <<3332, 3340>>, <<3342, 3344>>, <<3346, 3386>>, <<3389, 3389>>, <<3406,
     3406>>, <<3412, 3414>>, <<3416, 3425>>, <<3430, 3448>>, <<3450, 3455>>,
     <<3461, 3478>>, <<3482, 3505>>, <<3507, 3515>>, <<3517, 3517>>, <<3520,
     3526>>, <<3558, 3567>>, <<3585, 3632>>, <<3634, 3635>>, <<3648, 3654>>,
     <<3664, 3673>>, <<3713, 3714>>, <<3716, 3716>>, <<3718, 3722>>, <<3724,
     3747>>, <<3749, 3749>>, <<3751, 3760>>, <<3762, 3763>>, <<3773, 3773>>,
     <<3776, 3780>>, <<3782, 3782>>, <<3792, 3801>>, <<3804, 3807>>, <<3840,
     3840>>, <<3872, 3891>>, <<3904, 3911>>, <<3913, 3948>>, <<3976, 3980>>,
     <<4096, 4138>>, <<4159, 4169>>, <<4176, 4181>>, <<4186, 4189>>, <<4193,
     4193>>, <<4197, 4198>>, <<4206, 4208>>, <<4213, 4225>>, <<4238, 4238>>,
     <<4240, 4249>>, <<4256, 4293>>, <<4295, 4295>>, <<4301, 4301>>, <<4304,
     4346>>, <<4348, 4680>>, <<4682, 4685>>, <<4688, 4694>>, <<4696, 4696>>,
     <<4698, 4701>>, <<4704, 4744>>, <<4746, 4749>>, <<4752, 4784>>, <<4786,
     4789>>, <<4792, 4798>>, <<4800, 4800>>, <<4802, 4805>>, <<4808, 4822>>,
     <<4824, 4880>>, <<4882, 4885>>, <<4888, 4954>>, <<4969, 4988>>, <<4992,
     5007>>, <<5024, 5109>>, <<5112, 5117>>, <<5121, 5740>>, <<5743, 5759>>,
     <<5761, 5786>>, <<5792, 5866>>, <<5870, 5880>>, <<5888, 5905>>, <<5919,
     5937>>, <<5952, 5969>>, <<5984, 5996>>, <<5998, 6000>>, <<6016, 6067>>,
     <<6103, 6103>>, <<6108, 6108>>, <<6112, 6121>>, <<6128, 6137>>, <<6160,
     6169>>, <<6176, 6264>>, <<6272, 6276>>, <<6279, 6312>>, <<6314, 6314>>,
     <<6320, 6389>>, <<6400, 6430>>, <<6470, 6509>>, <<6512, 6516>>, <<6528,
     6571>>, <<6576, 6601>>, <<6608, 6618>>, <<6656, 6678>>, <<6688, 6740>>,
     <<6784, 6793>>, <<6800, 6809>>, <<6823, 6823>>, <<6917, 6963>>, <<6981,
     6988>>, <<6992, 7001>>, <<7043, 7072>>, <<7086, 7141>>, <<7168, 7203>>,
     <<7232, 7241>>, <<7245, 7293>>, <<7296, 7304>>, <<7312, 7354>>, <<7357,
     7359>>, <<7401, 7404>>, <<7406, 7411>>, <<7413, 7414>>, <<7418, 7418>>,
     <<7424, 7615>>, <<7680, 7957>>, <<7960, 7965>>, <<7968, 8005>>, <<8008,
     8013>>, <<8016, 8023>>, <<8025, 8025>>, <<8027, 8027>>, <<8029, 8029>>,
     <<8031, 8061>>, <<8064, 8116>>, <<8118, 8124>>, <<8126, 8126>>, <<8130,
     8132>>, <<8134, 8140>>, <<8144, 8147>>, <<8150, 8155>>, <<8160, 8172>>,
     <<8178, 8180>>, <<8182, 8188>>, <<8304, 8305>>, <<8308, 8313>>, <<8319,
     8329>>, <<8336, 8348>>, <<8450, 8450>>, <<8455, 8455>>, <<8458, 8467>>,
     <<8469, 8469>>, <<8473, 8477>>, <<8484, 8484>>, <<8486, 8486>>, <<8488,
     8488>>, <<8490, 8493>>, <<8495, 8505>>, <<8508, 8511>>, <<8517, 8521>>,
     <<8526, 8526>>, <<8528, 8585>>, <<9312, 9371>>, <<9450, 9471>>, <<10102,
     10131>>, <<11264, 11492>>, <<11499, 11502>>, <<11506, 11507>>, <<11517,
     11517>>, <<11520, 11557>>, <<11559, 11559>>, <<11565, 11565>>, <<11568,
     11623>>, <<11631, 11631>>, <<11648, 11670>>, <<11680, 11686>>, <<11688,
     11694>>, <<11696, 11702>>, <<11704, 11710>>, <<11712, 11718>>, <<11720,
     11726>>, <<11728, 11734>>, <<11736, 11742>>, <<11823, 11823>>, <<12293,
     12295>>, <<12321, 12329>>, <<12337, 12341>>, <<12344, 12348>>, <<12353,
     12438>>, <<12445, 12447>>, <<12449, 12538>>, <<12540, 12543>>, <<12549,
     12591>>, <<12593, 12686>>, <<12690, 12693>>, <<12704, 12735>>, <<12784,
     12799>>, <<12832, 12841>>, <<12872, 12879>>, <<12881, 12895>>, <<12928,
     12937>>, <<12977, 12991>>, <<13312, 19903>>, <<19968, 42124>>, <<42192,
     42237>>, <<42240, 42508>>, <<42512, 42539>>, <<42560, 42606>>, <<42623,
     42653>>, <<42656, 42735>>, <<42775, 42783>>, <<42786, 42888>>, <<42891,
     42954>>, <<42960, 42961>>, <<42963, 42963>>, <<42965, 42969>>, <<42994,
     43009>>, <<43011, 43013>>, <<43015, 43018>>, <<43020, 43042>>, <<43056,
     43061>>, <<43072, 43123>>, <<43138, 43187>>, <<43216, 43225>>, <<43250,
     43255>>, <<43259, 43259>>, <<43261, 43262>>, <<43264, 43301>>, <<43312,
     43334>>, <<43360, 43388>>, <<43396, 43442>>, <<43471, 43481>>, <<43488,
     43492>>, <<43494, 43518>>, <<43520, 43560>>, <<43584, 43586>>, <<43588,
     43595>>, <<43600, 43609>>, <<43616, 43638>>, <<43642, 43642>>, <<43646,
     43695>>, <<43697, 43697>>, <<43701, 43702>>, <<43705, 43709>>, <<43712,
     43712>>, <<43714, 43714>>, <<43739, 43741>>, <<43744, 43754>>, <<43762,
     43764>>, <<43777, 43782>>, <<43785, 43790>>, <<43793, 43798>>, <<43808,
     43814>>, <<43816, 43822>>, <<43824, 43866>>, <<43868, 43881>>, <<43888,
     44002>>, <<44016, 44025>>, <<44032, 55203>>, <<55216, 55238>>, <<55243,
     55291>>, <<63744, 64109>>, <<64112, 64217>>, <<64256, 64262>>, <<64275,
     64279>>, <<64285, 64285>>, <<64287, 64296>>, <<64298, 64310>>, <<64312,
     64316>>, <<64318, 64318>>, <<64320, 64321>>, <<64323, 64324>>, <<64326,
     64433>>, <<64467, 64829>>, <<64848, 64911>>, <<64914, 64967>>, <<65008,
     65019>>, <<65136, 65140>>, <<65142, 65276>>, <<65296, 65305>>, <<65313,
     65338>>, <<65345, 65370>>, <<65382, 65470>>, <<65474, 65479>>, <<65482,
     65487>>, <<65490, 65495>>, <<65498, 65500>>, <<65536, 65547>>, <<65549,
     65574>>, <<65576, 65594>>, <<65596, 65597>>, <<65599, 65613>>, <<65616,
     65629>>, <<65664, 65786>>, <<65799, 65843>>, <<65856, 65912>>, <<65930,
     65931>>, <<66176, 66204>>, <<66208, 66256>>, <<66273, 66299>>, <<66304,
     66339>>, <<66349, 66378>>, <<66384, 66421>>, <<66432, 66461>>, <<66464,
     66499>>, <<66504, 66511>>, <<66513, 66517>>, <<66560, 66717>>, <<66720,
     66729>>, <<66736, 66771>>, <<66776, 66811>>, <<66816, 66855>>, <<66864,
     66915>>, <<66928, 66938>>, <<66940, 66954>>, <<66956, 66962>>, <<66964,
     66965>>, <<66967, 66977>>, <<66979, 66993>>, <<66995, 67001>>, <<67003,
     67004>>, <<67072, 67382>>, <<67392, 67413>>, <<67424, 67431>>, <<67456,
     67461>>, <<67463, 67504>>, <<67506, 67514>>, <<67584, 67589>>, <<67592,
     67592>>, <<67594, 67637>>, <<67639, 67640>>, <<67644, 67644>>, <<67647,
     67669>>, <<67672, 67702>>, <<67705, 67742>>, <<67751, 67759>>, <<67808,
     67826>>, <<67828, 67829>>, <<67835, 67867>>, <<67872, 67897>>, <<67968,
     68023>>, <<68028, 68047>>, <<68050, 68096>>, <<68112, 68115>>, <<68117,
     68119>>, <<68121, 68149>>, <<68160, 68168>>, <<68192, 68222>>, <<68224,
     68255>>, <<68288, 68295>>, <<68297, 68324>>, <<68331, 68335>>, <<68352,
     68405>>, <<68416, 68437>>, <<68440, 68466>>, <<68472, 68497>>, <<68521,
     68527>>, <<68608, 68680>>, <<68736, 68786>>, <<68800, 68850>>, <<68858,
     68899>>, <<68912, 68921>>, <<69216, 69246>>, <<69248, 69289>>, <<69296,
     69297>>, <<69376, 69415>>, <<69424, 69445>>, <<69457, 69460>>, <<69488,
     69505>>, <<69552, 69579>>, <<69600, 69622>>, <<69635, 69687>>, <<69714,
     69743>>, <<69745, 69746>>, <<69749, 69749>>, <<69763, 69807>>, <<69840,
     69864>>, <<69872, 69881>>, <<69891, 69926>>, <<69942, 69951>>, <<69956,
     69956>>, <<69959, 69959>>, <<69968, 70002>>, <<70006, 70006>>, <<70019,
     70066>>, <<70081, 70084>>, <<70096, 70106>>, <<70108, 70108>>, <<70113,
     70132>>, <<70144, 70161>>, <<70163, 70187>>, <<70272, 70278>>, <<70280,
     70280>>, <<70282, 70285>>, <<70287, 70301>>, <<70303, 70312>>, <<70320,
     70366>>, <<70384, 70393>>, <<70405, 70412>>, <<70415, 70416>>, <<70419,
     70440>>, <<70442, 70448>>, <<70450, 70451>>, <<70453, 70457>>, <<70461,
     70461>>, <<70480, 70480>>, <<70493, 70497>>, <<70656, 70708>>, <<70727,
     70730>>, <<70736, 70745>>, <<70751, 70753>>, <<70784, 70831>>, <<70852,
     70853>>, <<70855, 70855>>, <<70864, 70873>>, <<71040, 71086>>, <<71128,
     71131>>, <<71168, 71215>>, <<71236, 71236>>, <<71248, 71257>>, <<71296,
     71338>>, <<71352, 71352>>, <<71360, 71369>>, <<71424, 71450>>, <<71472,
     71483>>, <<71488, 71494>>, <<71680, 71723>>, <<71840, 71922>>, <<71935,
     71942>>, <<71945, 71945>>, <<71948, 71955>>, <<71957, 71958>>, <<71960,
     71983>>, <<71999, 71999>>, <<72001, 72001>>, <<72016, 72025>>, <<72096,
     72103>>, <<72106, 72144>>, <<72161, 72161>>, <<72163, 72163>>, <<72192,
     72192>>, <<72203, 72242>>, <<72250, 72250>>, <<72272, 72272>>, <<72284,
     72329>>, <<72349, 72349>>, <<72368, 72440>>, <<72704, 72712>>, <<72714,
     72750>>, <<72768, 72768>>, <<72784, 72812>>, <<72818, 72847>>, <<72960,
     72966>>, <<72968, 72969>>, <<72971, 73008>>, <<73030, 73030>>, <<73040,
     73049>>, <<73056, 73061>>, <<73063, 73064>>, <<73066, 73097>>, <<73112,
     73112>>, <<73120, 73129>>, <<73440, 73458>>, <<73648, 73648>>, <<73664,
     73684>>, <<73728, 74649>>, <<74752, 74862>>, <<74880, 75075>>, <<77712,
     77808>>, <<77824, 78894>>, <<82944, 83526>>, <<92160, 92728>>, <<92736,
     92766>>, <<92768, 92777>>, <<92784, 92862>>, <<92864, 92873>>, <<92880,
     92909>>, <<92928, 92975>>, <<92992, 92995>>, <<93008, 93017>>, <<93019,
     93025>>, <<93027, 93047>>, <<93053, 93071>>, <<93760, 93846>>, <<93952,
     94026>>, <<94032, 94032>>, <<94099, 94111>>, <<94176, 94177>>, <<94179,
     94179>>, <<94208, 100343>>, <<100352, 101589>>, <<101632, 101640>>,
     <<110576, 110579>>, <<110581, 110587>>, <<110589, 110590>>, <<110592,
     110882>>, <<110928, 110930>>, <<110948, 110951>>, <<110960, 111355>>,
     <<113664, 113770>>, <<113776, 113788>>, <<113792, 113800>>, <<113808,
     113817>>, <<119520, 119539>>, <<119648, 119672>>, <<119808, 119892>>,
     <<119894, 119964>>, <<119966, 119967>>, <<119970, 119970>>, <<119973,
     119974>>, <<119977, 119980>>, <<119982, 119993>>, <<119995, 119995>>,
     <<119997, 120003>>, <<120005, 120069>>, <<120071, 120074>>, <<120077,
     120084>>, <<120086, 120092>>, <<120094, 120121>>, <<120123, 120126>>,
     <<120128, 120132>>, <<120134, 120134>>, <<120138, 120144>>, <<120146,
     120485>>, <<120488, 120512>>, <<120514, 120538>>, <<120540, 120570>>,
     <<120572, 120596>>, <<120598, 120628>>, <<120630, 120654>>, <<120656,
     120686>>, <<120688, 120712>>, <<120714, 120744>>, <<120746, 120770>>,
     <<120772, 120779>>, <<120782, 120831>>, <<122624, 122654>>, <<123136,
     123180>>, <<123191, 123197>>, <<123200, 123209>>, <<123214, 123214>>,
     <<123536, 123565>>, <<123584, 123627>>, <<123632, 123641>>, <<124896,
     124902>>, <<124904, 124907>>, <<124909, 124910>>, <<124912, 124926>>,
     <<124928, 125124>>, <<125127, 125135>>, <<125184, 125251>>, <<125259,
     125259>>, <<125264, 125273>>, <<126065, 126123>>, <<126125, 126127>>,
     <<126129, 126132>>, <<126209, 126253>>, <<126255, 126269>>, <<126464,
     126467>>, <<126469, 126495>>, <<126497, 126498>>, <<126500, 126500>>,
     <<126503, 126503>>, <<126505, 126514>>, <<126516, 126519>>, <<126521,
     126521>>, <<126523, 126523>>, <<126530, 126530>>, <<126535, 126535>>,
     <<126537, 126537>>, <<126539, 126539>>, <<126541, 126543>>, <<126545,
     126546>>, <<126548, 126548>>, <<126551, 126551>>, <<126553, 126553>>,
     <<126555, 126555>>, <<126557, 126557>>, <<126559, 126559>>, <<126561,
     126562>>, <<126564, 126564>>, <<126567, 126570>>, <<126572, 126578>>,
     <<126580, 126583>>, <<126585, 126588>>, <<126590, 126590>>, <<126592,
     126601>>, <<126603, 126619>>, <<126625, 126627>>, <<126629, 126633>>,
     <<126635, 126651>>, <<127232, 127244>>, <<130032, 130041>>, <<131072,
     173791>>, <<173824, 177976>>, <<177984, 178205>>, <<178208, 183969>>,
     <<183984, 191456>>, <<194560, 195101>>, <<196608, 201546>>}

\* The characters from U+007F on that str.isprintable() is false for, which
\* repr() escapes, as <<first, last>> ranges.
NonPrintableRanges ==
    {<<127, 160>>, <<173, 173>>, <<888, 889>>, <<896, 899>>, <<907, 907>>,
     <<909, 909>>, <<930, 930>>, <<1328, 1328>>, <<1367, 1368>>, <<1419,
     1420>>, <<1424, 1424>>, <<1480, 1487>>, <<1515, 1518>>, <<1525, 1541>>,
     <<1564, 1564>>, <<1757, 1757>>, <<1806, 1807>>, <<1867, 1868>>, <<1970,
     1983>>, <<2043, 2044>>, <<2094, 2095>>, <<2111, 2111>>, <<2140, 2141>>,
     <<2143, 2143>>, <<2155, 2159>>, <<2191, 2199>>, <<2274, 2274>>, <<2436,
     2436>>, <<2445, 2446>>, <<2449, 2450>>, <<2473, 2473>>, <<2481, 2481>>,
     <<2483, 2485>>, <<2490, 2491>>, <<2501, 2502>>, <<2505, 2506>>, <<2511,
     2518>>, <<2520, 2523>>, <<2526, 2526>>, <<2532, 2533>>, <<2559, 2560>>,
     <<2564, 2564>>, <<2571, 2574>>, <<2577, 2578>>, <<2601, 2601>>, <<2609,
     2609>>, <<2612, 2612>>, <<2615, 2615>>, <<2618, 2619>>, <<2621, 2621>>,
     <<2627, 2630>>, <<2633, 2634>>, <<2638, 2640>>, <<2642, 2648>>, <<2653,
     2653>>, <<2655, 2661>>, <<2679, 2688>>, <<2692, 2692>>, <<2702, 2702>>,
     <<2706, 2706>>, <<2729, 2729>>, <<2737, 2737>>, <<2740, 2740>>, <<2746,
     2747>>, <<2758, 2758>>, <<2762, 2762>>, <<2766, 2767>>, <<2769, 2783>>,
     <<2788, 2789>>, <<2802, 2808>>, <<2816, 2816>>, <<2820, 2820>>, <<2829,
     2830>>, <<2833, 2834>>, <<2857, 2857>>, <<2865, 2865>>, <<2868, 2868>>,
     <<2874, 2875>>, <<2885, 2886>>, <<2889, 2890>>, <<2894, 2900>>, <<2904,
     2907>>, <<2910, 2910>>, <<2916, 2917>>, <<2936, 2945>>, <<2948, 2948>>,
     <<2955, 2957>>, <<2961, 2961>>, <<2966, 2968>>, <<2971, 2971>>, <<2973,
     2973>>, <<2976, 2978>>, <<2981, 2983>>, <<2987, 2989>>, <<3002, 3005>>,
     <<3011, 3013>>, <<3017, 3017>>, <<3022, 3023>>, <<3025, 3030>>, <<3032,
     3045>>, <<3067, 3071>>, <<3085, 3085>>, <<3089, 3089>>, <<3113, 3113>>,
     <<3130, 3131>>, <<3141, 3141>>, <<3145, 3145>>, <<3150, 3156>>, <<3159,
     3159>>, <<3163, 3164>>, <<3166, 3167>>, <<3172, 3173>>, <<3184, 3190>>,
     <<3213, 3213>>, <<3217, 3217>>, <<3241, 3241>>, <<3252, 3252>>, <<3258,
     3259>>, <<3269, 3269>>, <<3273, 3273>>, <<3278, 3284>>, <<3287, 3292>>,
     <<3295, 3295>>, <<3300, 3301>>, <<3312, 3312>>, <<3315, 3327>>, <<3341,
     3341>>, <<3345, 3345>>, <<3397, 3397>>, <<3401, 3401>>, <<3408, 3411>>,
     <<3428, 3429>>, <<3456, 3456>>, <<3460, 3460>>, <<3479, 3481>>, <<3506,
     3506>>, <<3516, 3516>>, <<3518, 3519>>, <<3527, 3529>>, <<3531, 3534>>,
     <<3541, 3541>>, <<3543, 3543>>, <<3552, 3557>>, <<3568, 3569>>, <<3573,
     3584>>, <<3643, 3646>>, <<3676, 3712>>, <<3715, 3715>>, <<3717, 3717>>,
     <<3723, 3723>>, <<3748, 3748>>, <<3750, 3750>>, <<3774, 3775>>, <<3781,
     3781>>, <<3783, 3783>>, <<3790, 3791>>, <<3802, 3803>>, <<3808, 3839>>,
     <<3912, 3912>>, <<3949, 3952>>, <<3992, 3992>>, <<4029, 4029>>, <<4045,
     4045>>, <<4059, 4095>>, <<4294, 4294>>, <<4296, 4300>>, <<4302, 4303>>,
     <<4681, 4681>>, <<4686, 4687>>, <<4695, 4695>>, <<4697, 4697>>, <<4702,
     4703>>, <<4745, 4745>>, <<4750, 4751>>, <<4785, 4785>>, <<4790, 4791>>,
     <<4799, 4799>>, <<4801, 4801>>, <<4806, 4807>>, <<4823, 4823>>, <<4881,
     4881>>, <<4886, 4887>>, <<4955, 4956>>, <<4989, 4991>>, <<5018, 5023>>,
     <<5110, 5111>>, <<5118, 5119>>, <<5760, 5760>>, <<5789, 5791>>, <<5881,
     5887>>, <<5910, 5918>>, <<5943, 5951>>, <<5972, 5983>>, <<5997, 5997>>,
     <<6001, 6001>>, <<6004, 6015>>, <<6110, 6111>>, <<6122, 6127>>, <<6138,
     6143>>, <<6158, 6158>>, <<6170, 6175>>, <<6265, 6271>>, <<6315, 6319>>,
     <<6390, 6399>>, <<6431, 6431>>, <<6444, 6447>>, <<6460, 6463>>, <<6465,
     6467>>, <<6510, 6511>>, <<6517, 6527>>, <<6572, 6575>>, <<6602, 6607>>,
     <<6619, 6621>>, <<6684, 6685>>, <<6751, 6751>>, <<6781, 6782>>, <<6794,
     6799>>, <<6810, 6815>>, <<6830, 6831>>, <<6863, 6911>>, <<6989, 6991>>,
     <<7039, 7039>>, <<7156, 7163>>, <<7224, 7226>>, <<7242, 7244>>, <<7305,
     7311>>, <<7355, 7356>>, <<7368, 7375>>, <<7419, 7423>>, <<7958, 7959>>,
     <<7966, 7967>>, <<8006, 8007>>, <<8014, 8015>>, <<8024, 8024>>, <<8026,
     8026>>, <<8028, 8028>>, <<8030, 8030>>, <<8062, 8063>>, <<8117, 8117>>,
     <<8133, 8133>>, <<8148, 8149>>, <<8156, 8156>>, <<8176, 8177>>, <<8181,
     8181>>, <<8191, 8207>>, <<8232, 8239>>, <<8287, 8303>>, <<8306, 8307>>,
     <<8335, 8335>>, <<8349, 8351>>, <<8385, 8399>>, <<8433, 8447>>, <<8588,
     8591>>, <<9255, 9279>>, <<9291, 9311>>, <<11124, 11125>>, <<11158,
     11158>>, <<11508, 11512>>, <<11558, 11558>>, <<11560, 11564>>, <<11566,
     11567>>, <<11624, 11630>>, <<11633, 11646>>, <<11671, 11679>>, <<11687,
     11687>>, <<11695, 11695>>, <<11703, 11703>>, <<11711, 11711>>, <<11719,
     11719>>, <<11727, 11727>>, <<11735, 11735>>, <<11743, 11743>>, <<11870,
     11903>>, <<11930, 11930>>, <<12020, 12031>>, <<12246, 12271>>, <<12284,
     12288>>, <<12352, 12352>>, <<12439, 12440>>, <<12544, 12548>>, <<12592,
     12592>>, <<12687, 12687>>, <<12772, 12783>>, <<12831, 12831>>, <<42125,
     42127>>, <<42183, 42191>>, <<42540, 42559>>, <<42744, 42751>>, <<42955,
     42959>>, <<42962, 42962>>, <<42964, 42964>>, <<42970, 42993>>, <<43053,
     43055>>, <<43066, 43071>>, <<43128, 43135>>, <<43206, 43213>>, <<43226,
     43231>>, <<43348, 43358>>, <<43389, 43391>>, <<43470, 43470>>, <<43482,
     43485>>, <<43519, 43519>>, <<43575, 43583>>, <<43598, 43599>>, <<43610,
     43611>>, <<43715, 43738>>, <<43767, 43776>>, <<43783, 43784>>, <<43791,
     43792>>, <<43799, 43807>>, <<43815, 43815>>, <<43823, 43823>>, <<43884,
     43887>>, <<44014, 44015>>, <<44026, 44031>>, <<55204, 55215>>, <<55239,
     55242>>, <<55292, 63743>>, <<64110, 64111>>, <<64218, 64255>>, <<64263,
     64274>>, <<64280, 64284>>, <<64311, 64311>>, <<64317, 64317>>, <<64319,
     64319>>, <<64322, 64322>>, <<64325, 64325>>, <<64451, 64466>>, <<64912,
     64913>>, <<64968, 64974>>, <<64976, 65007>>, <<65050, 65055>>, <<65107,
     65107>>, <<65127, 65127>>, <<65132, 65135>>, <<65141, 65141>>, <<65277,
     65280>>, <<65471, 65473>>, <<65480, 65481>>, <<65488, 65489>>, <<65496,
     65497>>, <<65501, 65503>>, <<65511, 65511>>, <<65519, 65531>>, <<65534,
     65535>>, <<65548, 65548>>, <<65575, 65575>>, <<65595, 65595>>, <<65598,
     65598>>, <<65614, 65615>>, <<65630, 65663>>, <<65787, 65791>>, <<65795,
     65798>>, <<65844, 65846>>, <<65935, 65935>>, <<65949, 65951>>, <<65953,
     65999>>, <<66046, 66175>>, <<66205, 66207>>, <<66257, 66271>>, <<66300,
     66303>>, <<66340, 66348>>, <<66379, 66383>>, <<66427, 66431>>, <<66462,
     66462>>, <<66500, 66503>>, <<66518, 66559>>, <<66718, 66719>>, <<66730,
     66735>>, <<66772, 66775>>, <<66812, 66815>>, <<66856, 66863>>, <<66916,
     66926>>, <<66939, 66939>>, <<66955, 66955>>, <<66963, 66963>>, <<66966,
     66966>>, <<66978, 66978>>, <<66994, 66994>>, <<67002, 67002>>, <<67005,
     67071>>, <<67383, 67391>>, <<67414, 67423>>, <<67432, 67455>>, <<67462,
     67462>>, <<67505, 67505>>, <<67515, 67583>>, <<67590, 67591>>, <<67593,
     67593>>, <<67638, 67638>>, <<67641, 67643>>, <<67645, 67646>>, <<67670,
     67670>>, <<67743, 67750>>, <<67760, 67807>>, <<67827, 67827>>, <<67830,
     67834>>, <<67868, 67870>>, <<67898, 67902>>, <<67904, 67967>>, <<68024,
     68027>>, <<68048, 68049>>, <<68100, 68100>>, <<68103, 68107>>, <<68116,
     68116>>, <<68120, 68120>>, <<68150, 68151>>, <<68155, 68158>>, <<68169,
     68175>>, <<68185, 68191>>, <<68256, 68287>>, <<68327, 68330>>, <<68343,
     68351>>, <<68406, 68408>>, <<68438, 68439>>, <<68467, 68471>>, <<68498,
     68504>>, <<68509, 68520>>, <<68528, 68607>>, <<68681, 68735>>, <<68787,
     68799>>, <<68851, 68857>>, <<68904, 68911>>, <<68922, 69215>>, <<69247,
     69247>>, <<69290, 69290>>, <<69294, 69295>>, <<69298, 69375>>, <<69416,
     69423>>, <<69466, 69487>>, <<69514, 69551>>, <<69580, 69599>>, <<69623,
     69631>>, <<69710, 69713>>, <<69750, 69758>>, <<69821, 69821>>, <<69827,
     69839>>, <<69865, 69871>>, <<69882, 69887>>, <<69941, 69941>>, <<69960,
     69967>>, <<70007, 70015>>, <<70112, 70112>>, <<70133, 70143>>, <<70162,
     70162>>, <<70207, 70271>>, <<70279, 70279>>, <<70281, 70281>>, <<70286,
     70286>>, <<70302, 70302>>, <<70314, 70319>>, <<70379, 70383>>, <<70394,
     70399>>, <<70404, 70404>>, <<70413, 70414>>, <<70417, 70418>>, <<70441,
     70441>>, <<70449, 70449>>, <<70452, 70452>>, <<70458, 70458>>, <<70469,
     70470>>, <<70473, 70474>>, <<70478, 70479>>, <<70481, 70486>>, <<70488,
     70492>>, <<70500, 70501>>, <<70509, 70511>>, <<70517, 70655>>, <<70748,
     70748>>, <<70754, 70783>>, <<70856, 70863>>, <<70874, 71039>>, <<71094,
     71095>>, <<71134, 71167>>, <<71237, 71247>>, <<71258, 71263>>, <<71277,
     71295>>, <<71354, 71359>>, <<71370, 71423>>, <<71451, 71452>>, <<71468,
     71471>>, <<71495, 71679>>, <<71740, 71839>>, <<71923, 71934>>, <<71943,
     71944>>, <<71946, 71947>>, <<71956, 71956>>, <<71959, 71959>>, <<71990,
     71990>>, <<71993, 71994>>, <<72007, 72015>>, <<72026, 72095>>, <<72104,
     72105>>, <<72152, 72153>>, <<72165, 72191>>, <<72264, 72271>>, <<72355,
     72367>>, <<72441, 72703>>, <<72713, 72713>>, <<72759, 72759>>, <<72774,
     72783>>, <<72813, 72815>>, <<72848, 72849>>, <<72872, 72872>>, <<72887,
     72959>>, <<72967, 72967>>, <<72970, 72970>>, <<73015, 73017>>, <<73019,
     73019>>, <<73022, 73022>>, <<73032, 73039>>, <<73050, 73055>>, <<73062,
     73062>>, <<73065, 73065>>, <<73103, 73103>>, <<73106, 73106>>, <<73113,
     73119>>, <<73130, 73439>>, <<73465, 73647>>, <<73649, 73663>>, <<73714,
     73726>>, <<74650, 74751>>, <<74863, 74863>>, <<74869, 74879>>, <<75076,
     77711>>, <<77811, 77823>>, <<78895, 82943>>, <<83527, 92159>>, <<92729,
     92735>>, <<92767, 92767>>, <<92778, 92781>>, <<92863, 92863>>, <<92874,
     92879>>, <<92910, 92911>>, <<92918, 92927>>, <<92998, 93007>>, <<93018,
     93018>>, <<93026, 93026>>, <<93048, 93052>>, <<93072, 93759>>, <<93851,
     93951>>, <<94027, 94030>>, <<94088, 94094>>, <<94112, 94175>>, <<94181,
     94191>>, <<94194, 94207>>, <<100344, 100351>>, <<101590, 101631>>,
     <<101641, 110575>>, <<110580, 110580>>, <<110588, 110588>>, <<110591,
     110591>>, <<110883, 110927>>, <<110931, 110947>>, <<110952, 110959>>,
     <<111356, 113663>>, <<113771, 113775>>, <<113789, 113791>>, <<113801,
     113807>>, <<113818, 113819>>, <<113824, 118527>>, <<118574, 118575>>,
     <<118599, 118607>>, <<118724, 118783>>, <<119030, 119039>>, <<119079,
     119080>>, <<119155, 119162>>, <<119275, 119295>>, <<119366, 119519>>,
     <<119540, 119551>>, <<119639, 119647>>, <<119673, 119807>>, <<119893,
     119893>>, <<119965, 119965>>, <<119968, 119969>>, <<119971, 119972>>,
     <<119975, 119976>>, <<119981, 119981>>, <<119994, 119994>>, <<119996,
     119996>>, <<120004, 120004>>, <<120070, 120070>>, <<120075, 120076>>,
     <<120085, 120085>>, <<120093, 120093>>, <<120122, 120122>>, <<120127,
     120127>>, <<120133, 120133>>, <<120135, 120137>>, <<120145, 120145>>,
     <<120486, 120487>>, <<120780, 120781>>, <<121484, 121498>>, <<121504,
     121504>>, <<121520, 122623>>, <<122655, 122879>>, <<122887, 122887>>,
     <<122905, 122906>>, <<122914, 122914>>, <<122917, 122917>>, <<122923,
     123135>>, <<123181, 123183>>, <<123198, 123199>>, <<123210, 123213>>,
     <<123216, 123535>>, <<123567, 123583>>, <<123642, 123646>>, <<123648,
     124895>>, <<124903, 124903>>, <<124908, 124908>>, <<124911, 124911>>,
     <<124927, 124927>>, <<125125, 125126>>, <<125143, 125183>>, <<125260,
     125263>>, <<125274, 125277>>, <<125280, 126064>>, <<126133, 126208>>,
     <<126270, 126463>>, <<126468, 126468>>, <<126496, 126496>>, <<126499,
     126499>>, <<126501, 126502>>, <<126504, 126504>>, <<126515, 126515>>,
     <<126520, 126520>>, <<126522, 126522>>, <<126524, 126529>>, <<126531,
     126534>>, <<126536, 126536>>, <<126538, 126538>>, <<126540, 126540>>,
     <<126544, 126544>>, <<126547, 126547>>, <<126549, 126550>>, <<126552,
     126552>>, <<126554, 126554>>, <<126556, 126556>>, <<126558, 126558>>,
     <<126560, 126560>>, <<126563, 126563>>, <<126565, 126566>>, <<126571,
     126571>>, <<126579, 126579>>, <<126584, 126584>>, <<126589, 126589>>,
     <<126591, 126591>>, <<126602, 126602>>, <<126620, 126624>>, <<126628,
     126628>>, <<126634, 126634>>, <<126652, 126703>>, <<126706, 126975>>,
     <<127020, 127023>>, <<127124, 127135>>, <<127151, 127152>>, <<127168,
     127168>>, <<127184, 127184>>, <<127222, 127231>>, <<127406, 127461>>,
     <<127491, 127503>>, <<127548, 127551>>, <<127561, 127567>>, <<127570,
     127583>>, <<127590, 127743>>, <<128728, 128732>>, <<128749, 128751>>,
     <<128765, 128767>>, <<128884, 128895>>, <<128985, 128991>>, <<129004,
     129007>>, <<129009, 129023>>, <<129036, 129039>>, <<129096, 129103>>,
     <<129114, 129119>>, <<129160, 129167>>, <<129198, 129199>>, <<129202,
     129279>>, <<129620, 129631>>, <<129646, 129647>>, <<129653, 129655>>,
     <<129661, 129663>>, <<129671, 129679>>, <<129709, 129711>>, <<129723,
     129727>>, <<129734, 129743>>, <<129754, 129759>>, <<129768, 129775>>,
     <<129783, 129791>>, <<129939, 129939>>, <<129995, 130031>>, <<130042,
     131071>>, <<173792, 173823>>, <<177977, 177983>>, <<178206, 178207>>,
     <<183970, 183983>>, <<191457, 194559>>, <<195102, 196607>>, <<201547,
     917759>>, <<918000, 1114111>>}

\* c lies in one of the <<first, last>> ranges.
InRanges(c, ranges) == \E r \in ranges : r[1] <= c /\ c <= r[2]

\* str.strip() on code points.
RECURSIVE Strip(_)
Strip(x) ==
    IF x = << >> THEN x
    ELSE IF x[1] \in Whitespace THEN Strip(Tail(x))
    ELSE IF x[Len(x)] \in Whitespace THEN Strip(SubSeq(x, 1, Len(x) - 1))
    ELSE x

\* The lower case of a character that str.lower() maps to one character
\* whatever its neighbours are.
LowerOf(c) ==
    IF c \in 65..90 THEN c + 32
    ELSE IF c < 192 THEN c
    ELSE IF \E r \in LowerRanges : r[1] <= c /\ c <= r[2] /\ (c - r[1]) % r[3] = 0
    THEN c + (CHOOSE r \in LowerRanges :
                  r[1] <= c /\ c <= r[2] /\ (c - r[1]) % r[3] = 0)[4]
    ELSE c

CaseIgnorable(c) == InRanges(c, CaseIgnorableRanges)
Cased(c) == InRanges(c, CasedRanges)

\* The capital sigma at position i of x ends a word: the nearest character
\* before it that is not case-ignorable is cased, and the nearest such
\* character after it, if any, is not.
FinalSigma(x, i) ==
    LET before == {j \in 1..(i - 1) : ~CaseIgnorable(x[j])}
        after  == {j \in (i + 1)..Len(x) : ~CaseIgnorable(x[j])}
    IN  /\ before # {}
        /\ Cased(x[CHOOSE j \in before : \A h \in before : h <= j])
        /\ (after = {} \/ ~Cased(x[CHOOSE j \in after : \A h \in after : j <= h]))

\* str.lower() on code points, over the first n characters: capital I with
\* dot above becomes two characters, capital sigma depends on its place.
RECURSIVE LowerUpTo(_, _)
LowerUpTo(x, n) ==
    IF n = 0 THEN << >>
    ELSE LowerUpTo(x, n - 1) \o
         (IF x[n] = 304 THEN <<105, 775>>
          ELSE IF x[n] = 931 THEN <<IF FinalSigma(x, n) THEN 962 ELSE 963>>
          ELSE <<LowerOf(x[n])>>)

\* str.lower() on code points.
Lower(x) == LowerUpTo(x, Len(x))

\* str.startswith on code points.
StartsWith(x, p) == Len(p) <= Len(x) /\ \A i \in 1..Len(p) : x[i] = p[i]

\* The regex class \w: letters, digits and the underscore.
Word(c) ==
    IF c < 128
    THEN c \in (48..57) \cup (65..90) \cup {95} \cup (97..122)
    ELSE InRanges(c, WordRanges)

\* "cuba", in either case of each letter, starts at position i of x.
CubaAt(x, i) ==
    /\ i + 3 <= Len(x)
    /\ x[i] \in {67, 99}
    /\ x[i + 1] \in {85, 117}
    /\ x[i + 2] \in {66, 98}
    /\ x[i + 3] \in {65, 97}

\* pattern.search(val) is not None, for \b(cuba\w*)\b ignoring case: "cuba"
\* starts a word somewhere (the \w* then runs to the end of that word).
Search(x) == \E i \in 1..Len(x) : CubaAt(x, i) /\ (i = 1 \/ ~Word(x[i - 1]))

(***************************************************************************)
(* Files, dicts and the csv reader and writer.                             *)
(***************************************************************************)
\* A path with no file.
NoFile == [exists |-> FALSE, header |-> << >>, rows |-> << >>]

\* A CSV file: its first line (the header) and its other lines, each a tuple
\* of texts; a blank line is the empty tuple.
CsvFile(header, rows) == [exists |-> TRUE, header |-> header, rows |-> rows]

\* The elements of a sequence.
SeqSet(q) == {q[i] : i \in 1..Len(q)}

\* `key in r`.
Has(r, key) == \E i \in 1..Len(r) : r[i].k = key

\* r.get(key, default).
Get(r, key, default) ==
    IF Has(r, key) THEN r[CHOOSE i \in 1..Len(r) : r[i].k = key].v ELSE default

\* r[key] = value: a key the dict has keeps its place.
DictSet(r, key, value) ==
    IF Has(r, key)
    THEN [i \in 1..Len(r) |-> IF r[i].k = key THEN [k |-> key, v |-> value] ELSE r[i]]
    ELSE Append(r, [k |-> key, v |-> value])

\* r.keys(), in insertion order.
Keys(r) == [i \in 1..Len(r) |-> r[i].k]

\* dict(zip(fieldnames, row)) followed by d[key] = restval for the fields the
\* row is too short for, over the first n fields of the header.
RECURSIVE ZipFields(_, _, _)
ZipFields(header, raw, n) ==
    IF n = 0 THEN << >>
    ELSE DictSet(ZipFields(header, raw, n - 1), Str(header[n]),
                 IF n <= Len(raw) THEN Str(raw[n]) ELSE None)

\* csv.DictReader on one data row: a row longer than the header keeps its
\* other fields as a list under restkey = None.
DictRow(header, raw) ==
    IF Len(header) < Len(raw)
    THEN DictSet(ZipFields(header, raw, Len(header)), None,
                 List(SubSeq(raw, Len(header) + 1, Len(raw))))
    ELSE ZipFields(header, raw, Len(header))

\* read_csv of an existing file: list(csv.DictReader(f)), which skips the
\* blank lines.
read_csv(file) ==
    LET data == SelectSeq(file.rows, LAMBDA raw : raw # << >>)
    IN  [i \in 1..Len(data) |-> DictRow(file.header, data[i])]

\* str.isprintable() of one character.
Printable(c) == IF c < 127 THEN 32 <= c ELSE ~InRanges(c, NonPrintableRanges)

\* The n lower-case hexadecimal digits of c.
RECURSIVE Hex(_, _)
Hex(c, n) ==
    IF n = 0 THEN << >>
    ELSE Hex(c \div 16, n - 1) \o
         <<IF (c % 16) < 10 THEN 48 + (c % 16) ELSE 87 + (c % 16)>>

\* What repr() of a str writes for the character c between the quotes
\* `quote`: a backslash before a backslash and before the quote, \t, \n and
\* \r, and \xhh, \uhhhh or \Uhhhhhhhh for another unprintable character.
ReprChar(c, quote) ==
    IF c = 92 \/ c = quote THEN <<92, c>>
    ELSE IF c = 9 THEN <<92, 116>>
    ELSE IF c = 10 THEN <<92, 110>>
    ELSE IF c = 13 THEN <<92, 114>>
    ELSE IF Printable(c) THEN <<c>>
    ELSE IF c < 256 THEN <<92, 120>> \o Hex(c, 2)
    ELSE IF c < 65536 THEN <<92, 117>> \o Hex(c, 4)
    ELSE <<92, 85>> \o Hex(c, 8)

\* The first n characters of x as repr() writes them.
RECURSIVE ReprChars(_, _, _)
ReprChars(x, quote, n) ==
    IF n = 0 THEN << >> ELSE ReprChars(x, quote, n - 1) \o ReprChar(x[n], quote)

\* The quote of repr() of a str: the double quote (34) for a text with a
\* single quote (39) and no double quote, the single quote otherwise.
ReprQuote(x) ==
    IF (\E i \in 1..Len(x) : x[i] = 39) /\ ~(\E i \in 1..Len(x) : x[i] = 34)
    THEN 34 ELSE 39

\* repr() of a str.
ReprStr(x) == <<ReprQuote(x)>> \o ReprChars(x, ReprQuote(x), Len(x)) \o <<ReprQuote(x)>>

\* repr of a list of texts without its brackets, over its first n items:
\* the repr of each, ", " between two.
RECURSIVE ReprItems(_, _)
ReprItems(items, n) ==
    IF n = 0 THEN << >>
    ELSE IF n = 1 THEN ReprStr(items[1])
    ELSE ReprItems(items, n - 1) \o <<44, 32>> \o ReprStr(items[n])

\* What the csv writer puts in a file for a value: a str as it is, None as
\* the empty text, anything else as its str().
CsvText(v) ==
    CASE v.type = "str"      -> v.val
      [] v.type = "NoneType" -> << >>
      [] v.type = "list"     -> <<91>> \o ReprItems(v.items, Len(v.items)) \o <<93>>

\* csv.DictWriter.writerow raises ValueError for a row with a key that is
\* not in fieldnames (extrasaction = "raise").
WrongFields(fieldnames, r) == \E i \in 1..Len(r) : r[i].k \notin SeqSet(fieldnames)

\* The number of rows written before writerow raises (all, if none does).
WritableRows(fieldnames, rows) ==
    IF \E i \in 1..Len(rows) : WrongFields(fieldnames, rows[i])
    THEN (CHOOSE i \in 1..Len(rows) :
             /\ WrongFields(fieldnames, rows[i])
             /\ \A j \in 1..(i - 1) : ~WrongFields(fieldnames, rows[j])) - 1
    ELSE Len(rows)

\* csv.DictWriter.writerow: the row's values in fieldnames order, the empty text for a
\* field the row does not have.
WriteRow(fieldnames, r) ==
    [i \in 1..Len(fieldnames) |-> CsvText(Get(r, fieldnames[i], Str(<< >>)))]

\* The file that open(path, "w"), writeheader and writing the first n of
\* `rows` leave.
WrittenFile(fieldnames, rows, n) ==
    CsvFile([i \in 1..Len(fieldnames) |-> CsvText(fieldnames[i])],
            [i \in 1..n |-> WriteRow(fieldnames, rows[i])])

\* The message of the ValueError that csv.DictWriter raises.
ExtraFields == "dict contains fields not in fieldnames"

(***************************************************************************)
(* index_by_keys.                                                          *)
(***************************************************************************)
\* tuple(r.get(col, "") for col in key_columns).
KeyOf(r, key_columns) ==
    [i \in 1..Len(key_columns) |-> Get(r, Str(key_columns[i]), Str(<< >>))]

\* A bug the loop could have: the first row of a key is kept.
RECURSIVE IndexLoopFirstWins(_, _, _)
IndexLoopFirstWins(rows, key_columns, n) ==
    IF n = 0 THEN << >>
    ELSE LET prev == IndexLoopFirstWins(rows, key_columns, n - 1)
             key  == KeyOf(rows[n], key_columns)
         IN  [k \in (DOMAIN prev) \cup {key} |->
                 IF k \in DOMAIN prev THEN prev[k] ELSE rows[n]]

\* The loop `for r in rows: index[key] = r` over the first n rows.
RECURSIVE IndexLoop(_, _, _)
IndexLoop(rows, key_columns, n) ==
    IF n = 0 THEN << >>
    ELSE LET prev == IndexLoop(rows, key_columns, n - 1)
             key  == KeyOf(rows[n], key_columns)
         IN  [k \in (DOMAIN prev) \cup {key} |->
                 IF k = key THEN rows[n] ELSE prev[k]]

\* The key columns that rows[0] does not have.
MissingIn(rows, columns) == {i \in 1..Len(columns) : ~Has(rows[1], Str(columns[i]))}

\* The message of the ValueError that index_by_keys raises.
KeyColumnNotFound == "Key column not found in CSV"

\* index_by_keys(rows, key_columns): the index, or the ValueError it raises.
index_by_keys(rows, key_columns) ==
    IF rows = << >>
    THEN [status |-> "ok", msg |-> "", index |-> << >>, column |-> << >>]
    ELSE IF MissingIn(rows, key_columns) # {}
    THEN [status |-> "ValueError", msg |-> KeyColumnNotFound, index |-> << >>,
          column |-> key_columns[CHOOSE i \in MissingIn(rows, key_columns) :
                                    \A j \in MissingIn(rows, key_columns) : i <= j]]
    ELSE [status |-> "ok", msg |-> "", index |-> IndexLoop(rows, key_columns, Len(rows)),
          column |-> << >>]

(***************************************************************************)
(* compare_csv_by_keys.                                                    *)
(***************************************************************************)
\* What a call leaves behind: how it ended ("ok" for a return, else the
\* exception raised), the disk, the message of an early return or of the
\* exception, the column a ValueError names, the files whose index was
\* built, the destinations opened for writing, and the rows and differences
\* it emitted, in order.
Outcome(status, d, msg, column, indexed, opened, only1, only2, diffs) ==
    [status |-> status, disk |-> d, msg |-> msg, column |-> column,
     indexed |-> indexed, opened |-> opened,
     only_in_1 |-> only1, only_in_2 |-> only2, diff_rows |-> diffs]

\* A bug the validation could have: only the first file's header is checked.
MissingCompareFirstOnly(rows1, rows2, compare_columns) ==
    {i \in 1..Len(compare_columns) : ~Has(rows1[1], Str(compare_columns[i]))}

\* The compare columns that rows1[0] or rows2[0] does not have.
MissingCompare(rows1, rows2, compare_columns) ==
    {i \in 1..Len(compare_columns) :
        \/ ~Has(rows1[1], Str(compare_columns[i]))
        \/ ~Has(rows2[1], Str(compare_columns[i]))}

\* [idx[k] for k in sorted(only)].
RowsOf(idx, only) == [i \in 1..Cardinality(only) |-> idx[Sorted(only)[i]]]

\* The disk after the `writes` of a call, each the path opened for writing
\* and the file left there, in order.
Wrote(d, writes) ==
    [p \in DOMAIN d |->
        IF \E i \in 1..Len(writes) : writes[i].path = p
        THEN writes[CHOOSE i \in 1..Len(writes) :
                       /\ writes[i].path = p
                       /\ \A j \in (i + 1)..Len(writes) : writes[j].path # p].file
        ELSE d[p]]

\* The paths of a sequence of writes.
Opened(writes) == [i \in 1..Len(writes) |-> writes[i].path]

\* for k in sorted(only): writer.writerow(idx[k]); print(...), on the file
\* just opened at `path`: the rows before one that csv.DictWriter refuses are
\* written and emitted.
WriteOnly(path, fieldnames, rows, n) ==
    [status |-> IF n < Len(rows) THEN "ValueError" ELSE "ok",
     msg |-> IF n < Len(rows) THEN ExtraFields ELSE "",
     writes |-> <<[path |-> path, file |-> WrittenFile(fieldnames, rows, n)]>>,
     rows |-> SubSeq(rows, 1, n)]

\* One of the two "Export rows only in file..." blocks: the keys `only` of
\* the index `idx`, written to `path` (if given) under `fieldnames` and
\* emitted.  With a path, the file is opened and the header written before
\* the keys are sorted, and each row is written before it is emitted.
ExportOnly(bad, only, idx, path, fieldnames) ==
    IF only = {}
    THEN [status |-> "ok", msg |-> "", writes |-> << >>, rows |-> << >>]
    ELSE IF path = NoPath
    THEN IF SortedRaises(only)
         THEN [status |-> "TypeError", msg |-> "", writes |-> << >>, rows |-> << >>]
         ELSE [status |-> "ok", msg |-> "", writes |-> << >>, rows |-> RowsOf(idx, only)]
    ELSE IF path \in bad
    THEN [status |-> "OSError", msg |-> "", writes |-> << >>, rows |-> << >>]
    ELSE IF SortedRaises(only)
    THEN [status |-> "TypeError", msg |-> "",
          writes |-> <<[path |-> path, file |-> WrittenFile(fieldnames, << >>, 0)]>>,
          rows |-> << >>]
    ELSE WriteOnly(path, fieldnames, RowsOf(idx, only),
                   WritableRows(fieldnames, RowsOf(idx, only)))

\* row_out[key_col] = k[i] over the first n key columns.
RECURSIVE KeyFields(_, _, _)
KeyFields(k, key_columns, n) ==
    IF n = 0 THEN << >>
    ELSE DictSet(KeyFields(k, key_columns, n - 1), Str(key_columns[n]), k[n])

\* row_out for key k and column col: the later assignments replace the value
\* of a key column called column, value_file1 or value_file2.
DiffRow(k, key_columns, col, v1, v2) ==
    DictSet(DictSet(DictSet(KeyFields(k, key_columns, Len(key_columns)),
                            Str(Column), Str(col)),
                    Str(ValueFile1), v1),
            Str(ValueFile2), v2)

\* The inner loop `for col in compare_columns` over the first n columns.
RECURSIVE DiffsOfKey(_, _, _, _, _, _)
DiffsOfKey(k, r1, r2, key_columns, compare_columns, n) ==
    IF n = 0 THEN << >>
    ELSE LET col == compare_columns[n]
             v1  == Get(r1, Str(col), Str(<< >>))
             v2  == Get(r2, Str(col), Str(<< >>))
             before == DiffsOfKey(k, r1, r2, key_columns, compare_columns, n - 1)
         IN  IF v1 # v2
             THEN Append(before, DiffRow(k, key_columns, col, v1, v2))
             ELSE before

\* The outer loop `for k in sorted(in_both)` over the first n keys.
RECURSIVE DiffsLoop(_, _, _, _, _, _)
DiffsLoop(keys, idx1, idx2, key_columns, compare_columns, n) ==
    IF n = 0 THEN << >>
    ELSE DiffsLoop(keys, idx1, idx2, key_columns, compare_columns, n - 1)
         \o DiffsOfKey(keys[n], idx1[keys[n]], idx2[keys[n]],
                       key_columns, compare_columns, Len(compare_columns))

\* "Collect column differences for matched keys".
CollectDiffs(in_both, idx1, idx2, key_columns, compare_columns) ==
    IF SortedRaises(in_both)
    THEN [status |-> "TypeError", rows |-> << >>]
    ELSE [status |-> "ok",
          rows |-> DiffsLoop(Sorted(in_both), idx1, idx2, key_columns,
                             compare_columns, Cardinality(in_both))]

\* fieldnames = key_columns + ["column", "value_file1", "value_file2"].
DiffFieldnames(key_columns) ==
    [i \in 1..Len(key_columns) |-> Str(key_columns[i])]
    \o <<Str(Column), Str(ValueFile1), Str(ValueFile2)>>

\* "Export differences".
ExportDiffs(bad, diff_rows, path, key_columns) ==
    IF path # NoPath /\ diff_rows # << >>
    THEN IF path \in bad
         THEN [status |-> "OSError", writes |-> << >>]
         ELSE [status |-> "ok",
               writes |-> <<[path |-> path,
                             file |-> WrittenFile(DiffFieldnames(key_columns), diff_rows,
                                                  Len(diff_rows))]>>]
    ELSE [status |-> "ok", writes |-> << >>]

\* How a comparison that built both indexes ends.
Compared(d, status, msg, writes, only1, only2, diffs) ==
    Outcome(status, Wrote(d, writes), msg, << >>, <<"file1", "file2">>, Opened(writes),
            only1, only2, diffs)

\* The four blocks in order, each reached if the one before did not raise:
\* e1 and e2 are the two "Export rows only in file..." blocks, cd is "Collect
\* column differences", ed is "Export differences".
CompareBlocks(d, e1, e2, cd, ed) ==
    IF e1.status # "ok"
    THEN Compared(d, e1.status, e1.msg, e1.writes, e1.rows, << >>, << >>)
    ELSE IF e2.status # "ok"
    THEN Compared(d, e2.status, e2.msg, e1.writes \o e2.writes, e1.rows, e2.rows, << >>)
    ELSE IF cd.status # "ok"
    THEN Compared(d, cd.status, "", e1.writes \o e2.writes, e1.rows, e2.rows, << >>)
    ELSE Compared(d, ed.status, "", e1.writes \o e2.writes \o ed.writes,
                  e1.rows, e2.rows, cd.rows)

\* The part of compare_csv_by_keys after the differences are collected.
CompareCollected(d, bad, e1, e2, cd, key_columns, diff_output_path) ==
    CompareBlocks(d, e1, e2, cd, ExportDiffs(bad, cd.rows, diff_output_path, key_columns))

\* The part of compare_csv_by_keys after both indexes are built.
CompareIndexed(d, bad, rows1, rows2, idx1, idx2, key_columns, compare_columns, diff_output_path, only_in_1_output, only_in_2_output) ==
    LET keys1     == DOMAIN idx1
        keys2     == DOMAIN idx2
        only_in_1 == keys1 \ keys2
        only_in_2 == keys2 \ keys1
        in_both   == keys1 \cap keys2
    IN  CompareCollected(d, bad,
            ExportOnly(bad, only_in_1, idx1, only_in_1_output, Keys(rows1[1])),
            ExportOnly(bad, only_in_2, idx2, only_in_2_output, Keys(rows2[1])),
            CollectDiffs(in_both, idx1, idx2, key_columns, compare_columns),
            key_columns, diff_output_path)

\* idx1 = index_by_keys(rows1, key_columns), idx2 = index_by_keys(rows2,
\* key_columns), i1 and i2 being what the two calls return or raise.
CompareIndexing(d, bad, rows1, rows2, i1, i2, key_columns, compare_columns, diff_output_path, only_in_1_output, only_in_2_output) ==
    IF i1.status # "ok"
    THEN Outcome(i1.status, d, i1.msg, i1.column, << >>, << >>, << >>, << >>, << >>)
    ELSE IF i2.status # "ok"
    THEN Outcome(i2.status, d, i2.msg, i2.column, <<"file1">>, << >>, << >>, << >>, << >>)
    ELSE CompareIndexed(d, bad, rows1, rows2, i1.index, i2.index, key_columns,
                        compare_columns, diff_output_path, only_in_1_output,
                        only_in_2_output)

\* The part of compare_csv_by_keys after the compare columns are validated.
CompareValidated(d, bad, rows1, rows2, key_columns, compare_columns, diff_output_path, only_in_1_output, only_in_2_output) ==
    CompareIndexing(d, bad, rows1, rows2, index_by_keys(rows1, key_columns),
                    index_by_keys(rows2, key_columns), key_columns, compare_columns,
                    diff_output_path, only_in_1_output, only_in_2_output)

\* The messages of the ValueError that the validation of the compare columns
\* raises, and of the early returns.
NotFoundInFile1 == "Column not found in file1"
NotFoundInFile2 == "Column not found in file2"
File1NoData == "file1 has no data"
File2NoData == "file2 has no data"

\* "Validate compare columns": the ValueError for col, the first compare
\* column that a file lacks, file1 looked at first.
CompareMissing(d, rows1, col) ==
    Outcome("ValueError", d,
            IF ~Has(rows1[1], Str(col)) THEN NotFoundInFile1 ELSE NotFoundInFile2,
            col, << >>, << >>, << >>, << >>, << >>)

\* compare_csv_by_keys after rows1 = read_csv(file1), rows2 = read_csv(file2).
CompareLoaded(d, bad, rows1, rows2, key_columns, compare_columns, diff_output_path, only_in_1_output, only_in_2_output) ==
    LET miss == MissingCompare(rows1, rows2, compare_columns)
    IN  IF rows1 = << >>
        THEN Outcome("ok", d, File1NoData, << >>, << >>, << >>, << >>, << >>, << >>)
        ELSE IF rows2 = << >>
        THEN Outcome("ok", d, File2NoData, << >>, << >>, << >>, << >>, << >>, << >>)
        ELSE IF miss # {}
        THEN CompareMissing(d, rows1,
                            compare_columns[CHOOSE i \in miss : \A j \in miss : i <= j])
        ELSE CompareValidated(d, bad, rows1, rows2, key_columns, compare_columns,
                              diff_output_path, only_in_1_output, only_in_2_output)

\* compare_csv_by_keys on the disk d, where the paths in `bad` cannot be
\* opened for writing.
compare_csv_by_keys(d, bad, file1, file2, key_columns, compare_columns, diff_output_path, only_in_1_output, only_in_2_output) ==
    IF ~d[file1].exists \/ ~d[file2].exists
    THEN Outcome("OSError", d, "", << >>, << >>, << >>, << >>, << >>, << >>)
    ELSE CompareLoaded(d, bad, read_csv(d[file1]), read_csv(d[file2]), key_columns,
                       compare_columns, diff_output_path, only_in_1_output,
                       only_in_2_output)

(***************************************************************************)
(* The filters.                                                            *)
(***************************************************************************)
\* What a filter call leaves behind: how it ended, the disk, the message of
\* the exception, the column a ValueError names, the destinations opened,
\* and the lists it returns.
FilterOutcome(status, d, msg, column, opened, matched, unmatched) ==
    [status |-> status, disk |-> d, msg |-> msg, column |-> column,
     opened |-> opened, matched |-> matched, unmatched |-> unmatched]

\* The message of the ValueError that a filter raises for a missing column.
ColumnNotFound == "Column not found in file"

\* The with-block that writes `rows` to `path`, if a path is given: the rows
\* before one that csv.DictWriter refuses are written.
Export(bad, path, fieldnames, rows) ==
    IF path = NoPath
    THEN [status |-> "ok", msg |-> "", writes |-> << >>]
    ELSE IF path \in bad
    THEN [status |-> "OSError", msg |-> "", writes |-> << >>]
    ELSE [status |-> IF WritableRows(fieldnames, rows) < Len(rows)
                     THEN "ValueError" ELSE "ok",
          msg |-> IF WritableRows(fieldnames, rows) < Len(rows) THEN ExtraFields ELSE "",
          writes |-> <<[path |-> path,
                        file |-> WrittenFile(fieldnames, rows,
                                             WritableRows(fieldnames, rows))]>>]

\* How a filter ends after its with-block e: with the exception of the block
\* or returning `filtered`.
Exported(d, e, filtered) ==
    FilterOutcome(e.status, Wrote(d, e.writes), e.msg, << >>, Opened(e.writes),
                  IF e.status = "ok" THEN filtered ELSE << >>, << >>)

\* A filter with one list, after rows = read_csv(file_path) and `filtered`
\* the rows it selects (if the column is there).
Filtered(d, bad, rows, column_name, output_path, filtered) ==
    IF rows = << >>
    THEN FilterOutcome("ok", d, "", << >>, << >>, << >>, << >>)
    ELSE IF ~Has(rows[1], Str(column_name))
    THEN FilterOutcome("ValueError", d, ColumnNotFound, column_name, << >>, << >>, << >>)
    ELSE Exported(d, Export(bad, output_path, Keys(rows[1]), filtered), filtered)

\* The column filter_rows_by_column_value looks at.

\* [r for r in rows if r.get(column_name) == value] (equal = TRUE) and
\* [r for r in rows if r.get(column_name) != value] (equal = FALSE), over the
\* first n rows.
RECURSIVE RowsWhere(_, _, _, _, _)
RowsWhere(rows, column_name, value, equal, n) ==
    IF n = 0 THEN << >>
    ELSE LET before == RowsWhere(rows, column_name, value, equal, n - 1)
         IN  IF (Get(rows[n], Str(column_name), None) = Str(value)) = equal
             THEN Append(before, rows[n])
             ELSE before

\* filter_rows_by_column after rows = read_csv(file_path).
FilterColumnLoaded(d, bad, rows, column_name, value, output_path) ==
    Filtered(d, bad, rows, column_name, output_path,
             RowsWhere(rows, column_name, value, TRUE, Len(rows)))

\* filter_rows_by_column.
filter_rows_by_column(d, bad, file_path, column_name, value, output_path) ==
    IF ~d[file_path].exists
    THEN FilterOutcome("OSError", d, "", << >>, << >>, << >>, << >>)
    ELSE FilterColumnLoaded(d, bad, read_csv(d[file_path]), column_name, value,
                            output_path)

\* How filter_rows_by_column_value ends after its two with-blocks e1 and e2.
ExportedBoth(d, e1, e2, matched, unmatched) ==
    IF e1.status # "ok"
    THEN FilterOutcome(e1.status, Wrote(d, e1.writes), e1.msg, << >>, Opened(e1.writes),
                       << >>, << >>)
    ELSE IF e2.status # "ok"
    THEN FilterOutcome(e2.status, Wrote(d, e1.writes \o e2.writes), e2.msg, << >>,
                       Opened(e1.writes \o e2.writes), << >>, << >>)
    ELSE FilterOutcome("ok", Wrote(d, e1.writes \o e2.writes), "", << >>,
                       Opened(e1.writes \o e2.writes), matched, unmatched)

\* A bug the filter could have: the column is checked after the matched rows
\* are exported.
FilterValueLateCheck(d, bad, rows, value, matched_output, unmatched_output) ==
    LET matched   == RowsWhere(rows, AttributeColumn, value, TRUE, Len(rows))
        unmatched == RowsWhere(rows, AttributeColumn, value, FALSE, Len(rows))
        e1        == Export(bad, matched_output, Keys(rows[1]), matched)
    IN  IF rows = << >>
        THEN FilterOutcome("ok", d, "", << >>, << >>, << >>, << >>)
        ELSE IF e1.status = "ok" /\ ~Has(rows[1], Str(AttributeColumn))
        THEN FilterOutcome("ValueError", Wrote(d, e1.writes), ColumnNotFound,
                           AttributeColumn, Opened(e1.writes), << >>, << >>)
        ELSE ExportedBoth(d, e1,
                          Export(bad, unmatched_output, Keys(rows[1]), unmatched),
                          matched, unmatched)

\* filter_rows_by_column_value after rows = read_csv(file_path).
FilterValueLoaded(d, bad, rows, value, matched_output, unmatched_output) ==
    LET matched   == RowsWhere(rows, AttributeColumn, value, TRUE, Len(rows))
        unmatched == RowsWhere(rows, AttributeColumn, value, FALSE, Len(rows))
    IN  IF rows = << >>
        THEN FilterOutcome("ok", d, "", << >>, << >>, << >>, << >>)
        ELSE IF ~Has(rows[1], Str(AttributeColumn))
        THEN FilterOutcome("ValueError", d, ColumnNotFound, AttributeColumn,
                           << >>, << >>, << >>)
        ELSE ExportedBoth(d, Export(bad, matched_output, Keys(rows[1]), matched),
                          Export(bad, unmatched_output, Keys(rows[1]), unmatched),
                          matched, unmatched)

\* filter_rows_by_column_value.
filter_rows_by_column_value(d, bad, file_path, value, matched_output, unmatched_output) ==
    IF ~d[file_path].exists
    THEN FilterOutcome("OSError", d, "", << >>, << >>, << >>, << >>)
    ELSE FilterValueLoaded(d, bad, read_csv(d[file_path]), value, matched_output,
                           unmatched_output)

\* starts(val) raises AttributeError for None, which has no strip, lower or
\* startswith.
StartsRaises(val) == val = None

\* starts(val) for a str.
Starts(val, prefix, case_sensitive, trim) ==
    LET v == IF trim THEN Strip(val.val) ELSE val.val
    IN  IF case_sensitive
        THEN StartsWith(v, prefix)
        ELSE StartsWith(Lower(v), Lower(prefix))

\* [r for r in rows if starts(r.get(column_name, ""))] over the first n rows
\* (no row of which makes starts raise).
RECURSIVE RowsStarting(_, _, _, _, _, _)
RowsStarting(rows, column_name, prefix, case_sensitive, trim, n) ==
    IF n = 0 THEN << >>
    ELSE LET before == RowsStarting(rows, column_name, prefix, case_sensitive, trim, n - 1)
         IN  IF Starts(Get(rows[n], Str(column_name), Str(<< >>)), prefix,
                       case_sensitive, trim)
             THEN Append(before, rows[n])
             ELSE before

\* filter_rows_by_column_prefix after rows = read_csv(file_path).
FilterPrefixLoaded(d, bad, rows, column_name, prefix, output_path, case_sensitive, trim) ==
    IF /\ rows # << >>
       /\ Has(rows[1], Str(column_name))
       /\ \E i \in 1..Len(rows) : StartsRaises(Get(rows[i], Str(column_name), Str(<< >>)))
    THEN FilterOutcome("AttributeError", d, "", << >>, << >>, << >>, << >>)
    ELSE Filtered(d, bad, rows, column_name, output_path,
                  RowsStarting(rows, column_name, prefix, case_sensitive, trim, Len(rows)))

\* filter_rows_by_column_prefix.
filter_rows_by_column_prefix(d, bad, file_path, column_name, prefix, output_path, case_sensitive, trim) ==
    IF ~d[file_path].exists
    THEN FilterOutcome("OSError", d, "", << >>, << >>, << >>, << >>)
    ELSE FilterPrefixLoaded(d, bad, read_csv(d[file_path]), column_name, prefix,
                            output_path, case_sensitive, trim)

\* matches(val): False for None and for "", else whether the pattern is
\* found.
Matches(val) ==
    IF val = None \/ val = Str(<< >>) THEN FALSE ELSE Search(val.val)

\* [r for r in rows if matches(r.get(column_name, ""))] over the first n rows.
RECURSIVE RowsMatching(_, _, _)
RowsMatching(rows, column_name, n) ==
    IF n = 0 THEN << >>
    ELSE LET before == RowsMatching(rows, column_name, n - 1)
         IN  IF Matches(Get(rows[n], Str(column_name), Str(<< >>)))
             THEN Append(before, rows[n])
             ELSE before

\* filter_rows_name_matches_cuba after rows = read_csv(file_path).
FilterCubaLoaded(d, bad, rows, output_path, column_name) ==
    Filtered(d, bad, rows, column_name, output_path,
             RowsMatching(rows, column_name, Len(rows)))

\* filter_rows_name_matches_cuba.
filter_rows_name_matches_cuba(d, bad, file_path, output_path, column_name) ==
    IF ~d[file_path].exists
    THEN FilterOutcome("OSError", d, "", << >>, << >>, << >>, << >>)
    ELSE FilterCubaLoaded(d, bad, read_csv(d[file_path]), output_path, column_name)

\* main(): the cuba filter on cuba.csv, written to cuba_matches.csv.
CubaPath == "cuba.csv"
CubaMatchesPath == "cuba_matches.csv"
main(d, bad) == filter_rows_name_matches_cuba(d, bad, CubaPath, CubaMatchesPath, NameColumn)

(***************************************************************************)
(* The inputs of the calls.                                                *)
(***************************************************************************)
\* The paths of the model: the input files and the destinations the source
\* names (as defaults, in main and in main's examples).
File1 == "file1.csv"
File2 == "file2.csv"
DiffPath == "differences.csv"
Only1Path == "only_in_file1.csv"
Only2Path == "only_in_file2.csv"
MatchedPath == "attribute2_77.csv"
UnmatchedPath == "attribute_not_77.csv"
PrefixPath == "names_starting_77.csv"
ColumnPath == "filtered_Zyn.csv"

Destinations ==
    {DiffPath, Only1Path, Only2Path, MatchedPath, UnmatchedPath, PrefixPath,
     ColumnPath, CubaMatchesPath}
Paths == {File1, File2, CubaPath} \cup Destinations

\* All sequences over S of length at most n.
SeqsUpTo(S, n) == UNION {[1..k -> S] : k \in 0..n}

\* The files of `headers` with at most MaxRows lines after the header, taken
\* from `pool`, and the missing file.
FilesOf(headers, pool) ==
    {CsvFile(h, rows) : h \in headers, rows \in SeqsUpTo(pool, MaxRows)} \cup {NoFile}

\* The texts of the inputs, each the code points of the text named after it.
Id == <<105, 100>>  \* "id"
Price == <<112, 114, 105, 99, 101>>  \* "price"
Qty == <<113, 116, 121>>  \* "qty"
X == <<120>>  \* "x"
StaleText == <<115, 116, 97, 108, 101>>  \* "stale"
One == <<49>>  \* "1"
Ten == <<49, 48>>  \* "10"
Two == <<50>>  \* "2"
Seven == <<55>>  \* "7"
SeventySeven == <<55, 55>>  \* "77"
BlankSeventySeven == <<32, 55, 55>>  \* " 77"
Empty == << >>  \* ""
LowerAb == <<97, 98>>  \* "ab"
UpperAb == <<65, 66>>  \* "AB"
UpperEAcuteB == <<201, 66>>  \* U+00C9 (capital E with acute), B
LowerEAcute == <<233>>  \* U+00E9 (small e with acute)
UpperAlphaSigma == <<913, 931>>  \* U+0391 U+03A3 (capital alpha, capital sigma)
AlphaFinalSigma == <<945, 962>>  \* U+03B1 U+03C2 (small alpha, small final sigma)
CubanAb == <<67, 117, 98, 97, 110, 32, 97, 98>>  \* "Cuban ab"
Scuba == <<115, 99, 117, 98, 97>>  \* "scuba"
DashCuba == <<97, 45, 67, 85, 66, 65, 95, 49>>  \* "a-CUBA_1"
EAcuteCuba == <<233, 67, 117, 98, 97>>  \* U+00E9 (small e with acute), Cuba
QuoteText == <<97, 39, 98>>  \* "a'b"

\* The inputs of the comparison runs: two-column files keyed by id (or by a
\* column called column), with a duplicate id, a short row (price missing),
\* an empty price and, in the first file, a row longer than the header.
Headers == {<<Id, Price>>, <<Column, Price>>}
RowPool == {<<One, Ten>>, <<One, Two>>, <<Two>>, <<Two, Empty>>}
LongRowPool == RowPool \cup {<<One, Two, X>>}
SecondRowPool == {<<One, Two>>, <<Two>>}
KeyChoices == {<<Id>>, <<Price>>, <<Column, Price>>}
CompareChoices == {<<Price>>, <<Price, Id>>}
PrefixChoices == {Empty, One}
PathChoices ==
    {[diff |-> NoPath, only1 |-> NoPath, only2 |-> NoPath, bad |-> {}],
     [diff |-> DiffPath, only1 |-> Only1Path, only2 |-> Only2Path, bad |-> {}]}

\* The inputs of index_by_keys: also a header that repeats a name and blank
\* lines.
IndexHeaders == Headers \cup {<<Id, Id>>}
IndexRowPool == LongRowPool \cup {<< >>}

\* The inputs of the runs that look at the destinations: files with the
\* column filter_rows_by_column_value needs, with a short row, a long row
\* (its extra field a text with a quote) and a blank line; every choice of
\* destinations, and with all of them chosen at most one that cannot be
\* opened for writing.
IoHeaders == {<<NameColumn, AttributeColumn>>}
IoRowPool ==
    {<<LowerAb, SeventySeven>>, <<LowerAb, Seven>>, <<UpperAb>>,
     <<LowerAb, Seven, QuoteText>>, << >>}
IoSecondPool == {<<LowerAb, SeventySeven>>, <<UpperAb>>}
IoKeyChoices == {<<NameColumn>>, <<AttributeColumn>>, <<Id>>}
IoCompareChoices == {<<AttributeColumn>>, <<Price>>}
IoValues == {SeventySeven, Seven, Empty}
IoPathChoices ==
    [diff : {NoPath, DiffPath}, only1 : {NoPath, Only1Path},
     only2 : {NoPath, Only2Path}, bad : {{}}]
    \cup [diff : {DiffPath}, only1 : {Only1Path}, only2 : {Only2Path},
          bad : {{DiffPath}, {Only1Path}, {Only2Path}}]
IoFilterBad == {{}, {MatchedPath}, {UnmatchedPath}}

\* The inputs of the prefix filter: names in both cases, with surrounding
\* blanks, and beyond ASCII.
PrefixRowPool ==
    {<<LowerAb, SeventySeven>>, <<UpperAb>>, <<UpperEAcuteB, BlankSeventySeven>>,
     <<UpperAlphaSigma, Seven>>}
IoPrefixChoices == {Empty, LowerAb, LowerEAcute, AlphaFinalSigma, SeventySeven}

\* The inputs of the cuba filter.
CubaHeaders == {<<NameColumn, X>>}
CubaRowPool ==
    {<<CubanAb, One>>, <<Scuba, Two>>, <<DashCuba>>, <<EAcuteCuba, One>>, <<Empty, One>>}

\* What an earlier run may have left at a destination.
Stale == CsvFile(<<StaleText>>, << <<StaleText>> >>)

(***************************************************************************)
(* The state: the disk, the disk as the call found it (`old`), the paths   *)
(* that cannot be opened for writing, and the call with its outcome.  One  *)
(* run of the script makes one call.                                       *)
(***************************************************************************)
\* What the state keeps of an outcome: all but the disk, which `disk` holds.
Report(o) == [f \in (DOMAIN o) \ {"disk"} |-> o[f]]

NoCall == [op |-> "none"]
NoOutcome == [status |-> "none"]

Init ==
    /\ disk = [p \in Paths |-> NoFile]
    /\ old = disk
    /\ unwritable = {}
    /\ pc = "idle"
    /\ call = NoCall
    /\ out = NoOutcome

InitIO ==
    /\ \E prior \in {NoFile, Stale} :
          disk = [p \in Paths |-> IF p \in Destinations THEN prior ELSE NoFile]
    /\ old = disk
    /\ unwritable = {}
    /\ pc = "idle"
    /\ call = NoCall
    /\ out = NoOutcome

\* index_by_keys on the rows of a loaded file.
IndexCall(files, Ks) ==
    /\ pc = "idle"
    /\ \E f \in files \ {NoFile}, K \in Ks :
          /\ call' = [op |-> "index_by_keys", rows |-> read_csv(f), key_columns |-> K]
          /\ out' = index_by_keys(read_csv(f), K)
    /\ pc' = "returned"
    /\ UNCHANGED <<disk, old, unwritable>>

\* compare_csv_by_keys on two files.
CompareCall(files1, files2, Ks, Cs, Ps) ==
    /\ pc = "idle"
    /\ \E f1 \in files1, f2 \in files2, K \in Ks, C \in Cs, p \in Ps :
          LET d0 == [disk EXCEPT ![File1] = f1, ![File2] = f2]
              o  == compare_csv_by_keys(d0, p.bad, File1, File2, K, C,
                                        p.diff, p.only1, p.only2)
          IN  /\ old' = d0
              /\ unwritable' = p.bad
              /\ call' = [op |-> "compare_csv_by_keys", key_columns |-> K,
                          compare_columns |-> C, diff_output_path |-> p.diff,
                          only_in_1_output |-> p.only1, only_in_2_output |-> p.only2]
              /\ out' = Report(o)
              /\ disk' = o.disk
    /\ pc' = "returned"

\* filter_rows_by_column on one file.
FilterColumnCall(files, columns, Vs, Bs) ==
    /\ pc = "idle"
    /\ \E f \in files, column_name \in columns, value \in Vs,
          output_path \in {NoPath, ColumnPath}, bad \in Bs :
          LET d0 == [disk EXCEPT ![File1] = f]
              o  == filter_rows_by_column(d0, bad, File1, column_name, value, output_path)
          IN  /\ old' = d0
              /\ unwritable' = bad
              /\ call' = [op |-> "filter_rows_by_column", column_name |-> column_name,
                          value |-> value, output_path |-> output_path]
              /\ out' = Report(o)
              /\ disk' = o.disk
    /\ pc' = "returned"

\* filter_rows_by_column_value on one file.
FilterValueCall(files, Vs, Bs) ==
    /\ pc = "idle"
    /\ \E f \in files, value \in Vs, m \in {NoPath, MatchedPath},
          u \in {NoPath, UnmatchedPath}, bad \in Bs :
          LET d0 == [disk EXCEPT ![File1] = f]
              o  == filter_rows_by_column_value(d0, bad, File1, value, m, u)
          IN  /\ old' = d0
              /\ unwritable' = bad
              /\ call' = [op |-> "filter_rows_by_column_value", value |-> value,
                          matched_output |-> m, unmatched_output |-> u]
              /\ out' = Report(o)
              /\ disk' = o.disk
    /\ pc' = "returned"

\* filter_rows_by_column_prefix on one file.
FilterPrefixCall(files, columns, prefixes, Bs) ==
    /\ pc = "idle"
    /\ \E f \in files, column_name \in columns, prefix \in prefixes,
          output_path \in {NoPath, PrefixPath}, case_sensitive \in BOOLEAN,
          trim \in BOOLEAN, bad \in Bs :
          LET d0 == [disk EXCEPT ![File1] = f]
              o  == filter_rows_by_column_prefix(d0, bad, File1, column_name, prefix,
                                                 output_path, case_sensitive, trim)
          IN  /\ old' = d0
              /\ unwritable' = bad
              /\ call' = [op |-> "filter_rows_by_column_prefix",
                          column_name |-> column_name, prefix |-> prefix,
                          output_path |-> output_path,
                          case_sensitive |-> case_sensitive, trim |-> trim]
              /\ out' = Report(o)
              /\ disk' = o.disk
    /\ pc' = "returned"

\* filter_rows_name_matches_cuba on one file.
FilterCubaCall(files, columns, Bs) ==
    /\ pc = "idle"
    /\ \E f \in files, column_name \in columns,
          output_path \in {NoPath, CubaMatchesPath}, bad \in Bs :
          LET d0 == [disk EXCEPT ![File1] = f]
              o  == filter_rows_name_matches_cuba(d0, bad, File1, output_path, column_name)
          IN  /\ old' = d0
              /\ unwritable' = bad
              /\ call' = [op |-> "filter_rows_name_matches_cuba",
                          column_name |-> column_name, output_path |-> output_path]
              /\ out' = Report(o)
              /\ disk' = o.disk
    /\ pc' = "returned"

\* main() with some cuba.csv (or none) in the working directory.
MainCall(files, Bs) ==
    /\ pc = "idle"
    /\ \E f \in files, bad \in Bs :
          LET d0 == [disk EXCEPT ![CubaPath] = f]
              o  == main(d0, bad)
          IN  /\ old' = d0
              /\ unwritable' = bad
              /\ call' = [op |-> "main"]
              /\ out' = Report(o)
              /\ disk' = o.disk
    /\ pc' = "returned"

\* The comparison runs: no destination fails.
Next ==
    \/ IndexCall(FilesOf(IndexHeaders, IndexRowPool), KeyChoices)
    \/ CompareCall(FilesOf(Headers, LongRowPool), FilesOf(Headers, SecondRowPool),
                   KeyChoices, CompareChoices, PathChoices)
    \/ FilterPrefixCall(FilesOf(Headers, RowPool), {Price, Qty}, PrefixChoices, {{}})

Spec == Init /\ [][Next]_vars

\* The runs that look at the destinations.
NextIO ==
    \/ CompareCall(FilesOf(IoHeaders, IoRowPool), FilesOf(IoHeaders, IoSecondPool),
                   IoKeyChoices, IoCompareChoices, IoPathChoices)
    \/ FilterColumnCall(FilesOf(IoHeaders, IoRowPool), {NameColumn, AttributeColumn, Price},
                        {LowerAb, Seven}, {{}, {ColumnPath}})
    \/ FilterValueCall(FilesOf(IoHeaders \cup {<<NameColumn, Price>>}, IoRowPool),
                       IoValues, IoFilterBad)
    \/ FilterPrefixCall(FilesOf(IoHeaders, PrefixRowPool), {NameColumn, AttributeColumn},
                        IoPrefixChoices, {{}, {PrefixPath}})
    \/ FilterCubaCall(FilesOf(CubaHeaders, CubaRowPool), {NameColumn, X, Qty},
                      {{}, {CubaMatchesPath}})
    \/ MainCall(FilesOf(CubaHeaders \cup {<<X>>}, CubaRowPool), {{}, {CubaMatchesPath}})

SpecIO == InitIO /\ [][NextIO]_vars

(***************************************************************************)
(* The vocabulary of the claims.                                           *)
(***************************************************************************)
\* The call has returned or raised, and it was a call of `op`.
Returned(op) == pc = "returned" /\ call.op = op

\* The elements of `rows` at the positions in S, in their order in `rows`.
Pick(rows, S) ==
    [n \in 1..Cardinality(S) |->
        rows[CHOOSE i \in S : Cardinality({j \in S : j <= i}) = n]]

\* Every column of `columns` is in the header of `file`.
HeaderHas(file, columns) ==
    \A i \in 1..Len(columns) : \E j \in 1..Len(file.header) : file.header[j] = columns[i]

\* The two datasets of a comparison (the one dataset of a filter), as loaded.
RowsA == read_csv(old[File1])
RowsB == read_csv(old[File2])

\* A comparison of two readable, non-empty datasets.
NonEmptyCompare ==
    /\ Returned("compare_csv_by_keys")
    /\ old[File1].exists /\ old[File2].exists
    /\ RowsA # << >> /\ RowsB # << >>

\* ... whose key and compare columns are in both headers.
ValidCompare ==
    /\ NonEmptyCompare
    /\ HeaderHas(old[File1], call.key_columns) /\ HeaderHas(old[File2], call.key_columns)
    /\ HeaderHas(old[File1], call.compare_columns)
    /\ HeaderHas(old[File2], call.compare_columns)

\* No data row of the file is longer than the header.
NoLongRows(file) == \A i \in 1..Len(file.rows) : Len(file.rows[i]) <= Len(file.header)

\* Every data row of the file has exactly the fields of the header.
Complete(file) == \A i \in 1..Len(file.rows) : Len(file.rows[i]) = Len(file.header)

\* Both datasets of the comparison are complete, and no key column bears the
\* name of a field of the difference records.
CompleteRows ==
    /\ Complete(old[File1]) /\ Complete(old[File2])
    /\ \A i \in 1..Len(call.key_columns) :
          call.key_columns[i] \notin {Column, ValueFile1, ValueFile2}

\* The composite keys occurring in `rows`.
KeysIn(rows, K) == {KeyOf(rows[i], K) : i \in 1..Len(rows)}

\* The last row of `rows` with composite key k.
LastWith(rows, K, k) ==
    rows[CHOOSE i \in 1..Len(rows) :
            /\ KeyOf(rows[i], K) = k
            /\ \A j \in (i + 1)..Len(rows) : KeyOf(rows[j], K) # k]

\* The indexed rows of `rowsX` whose key does not occur in `rowsY`.
OnlyExpected(rowsX, rowsY, K) ==
    {LastWith(rowsX, K, k) : k \in KeysIn(rowsX, K) \ KeysIn(rowsY, K)}

\* The rows `emitted` are exactly those, in ascending order of their keys.
OnlySideExact(emitted, rowsX, rowsY, K) ==
    /\ SeqSet(emitted) = OnlyExpected(rowsX, rowsY, K)
    /\ Len(emitted) = Cardinality(OnlyExpected(rowsX, rowsY, K))
    /\ \A i \in 1..(Len(emitted) - 1) : TupleLT(KeyOf(emitted[i], K), KeyOf(emitted[i + 1], K))

\* The keys both datasets have.
SharedKeys == KeysIn(RowsA, call.key_columns) \cap KeysIn(RowsB, call.key_columns)

\* The values the indexed rows of A and of B hold for key k at position j of
\* compare_columns.
ValueA(k, j) ==
    Get(LastWith(RowsA, call.key_columns, k), Str(call.compare_columns[j]), Str(<< >>))
ValueB(k, j) ==
    Get(LastWith(RowsB, call.key_columns, k), Str(call.compare_columns[j]), Str(<< >>))

\* The (shared key, position) pairs at which the two hold unequal text, a
\* missing value being the empty text.
DiffPairs ==
    {p \in SharedKeys \X (1..Len(call.compare_columns)) :
        CsvText(ValueA(p[1], p[2])) # CsvText(ValueB(p[1], p[2]))}

\* The order of the differences: by key, then by position.
PairLT(p, q) == IF p[1] = q[1] THEN p[2] < q[2] ELSE TupleLT(p[1], q[1])

\* The difference record (key, column, value from A, value from B) of a pair.
FactOf(p) ==
    [key |-> p[1], column |-> Str(call.compare_columns[p[2]]),
     a |-> ValueA(p[1], p[2]), b |-> ValueB(p[1], p[2])]

\* The difference record an emitted row states.
FactIn(row) ==
    [key |-> KeyOf(row, call.key_columns), column |-> Get(row, Str(Column), None),
     a |-> Get(row, Str(ValueFile1), None), b |-> Get(row, Str(ValueFile2), None)]

\* The expected differences, in order.
ExpectedFacts ==
    [n \in 1..Cardinality(DiffPairs) |->
        FactOf(CHOOSE p \in DiffPairs :
                  Cardinality({q \in DiffPairs : PairLT(q, p)}) = n - 1)]

\* The keys of emitted rows and of emitted differences.
EmittedKeys(rows) == {KeyOf(rows[i], call.key_columns) : i \in 1..Len(rows)}
DiffKeys(rows) == {FactIn(rows[i]).key : i \in 1..Len(rows)}

\* The call raised the ValueError that names a missing column.
SchemaError ==
    /\ out.status = "ValueError"
    /\ out.msg \in {ColumnNotFound, KeyColumnNotFound, NotFoundInFile1, NotFoundInFile2}

(***************************************************************************)
(* C1.                                                                     *)
(***************************************************************************)
\* C1: for non-empty rows R whose first row has every key column,
\* index_by_keys(R, K) has exactly one entry per composite key occurring in R
\* (len(R) entries when no key occurs twice), and the row stored under a key
\* is the last row of R with that key.
C1_IndexLastWriteWins ==
    (/\ Returned("index_by_keys")
     /\ call.rows # << >>
     /\ \A i \in 1..Len(call.key_columns) : Has(call.rows[1], Str(call.key_columns[i])))
    => /\ out.status = "ok"
       /\ DOMAIN out.index = KeysIn(call.rows, call.key_columns)
       /\ \A k \in DOMAIN out.index :
             out.index[k] = LastWith(call.rows, call.key_columns, k)
       /\ (Cardinality(KeysIn(call.rows, call.key_columns)) = Len(call.rows)
             => Cardinality(DOMAIN out.index) = Len(call.rows))

\* C1's case: two different rows with one key were indexed.
C1_Witness ==
    /\ Returned("index_by_keys")
    /\ out.status = "ok"
    /\ Len(call.rows) >= 2
    /\ call.rows[1] # call.rows[2]
    /\ KeyOf(call.rows[1], call.key_columns) = KeyOf(call.rows[2], call.key_columns)
    /\ Cardinality(DOMAIN out.index) < Len(call.rows)

(***************************************************************************)
(* C2.                                                                     *)
(***************************************************************************)
\* What C2 says of a call that ended normally.
C2_Conclusion ==
    /\ out.status = "ok"
    /\ OnlySideExact(out.only_in_1, RowsA, RowsB, call.key_columns)
    /\ OnlySideExact(out.only_in_2, RowsB, RowsA, call.key_columns)
    /\ EmittedKeys(out.only_in_1) \cap EmittedKeys(out.only_in_2) = {}
    /\ (EmittedKeys(out.only_in_1) \cup EmittedKeys(out.only_in_2)) \cap SharedKeys = {}

\* C2: for non-empty A and B and valid columns, compare_csv_by_keys reports
\* as onlyA exactly the indexed rows of A whose key is not in B and as onlyB
\* exactly the indexed rows of B whose key is not in A, each in ascending
\* order of the composite key, and no key on both sides or also as shared.
C2_OnlySides == ValidCompare => C2_Conclusion

\* C2 for complete datasets.
C2_OnCompleteRows == (ValidCompare /\ CompleteRows) => C2_Conclusion

(***************************************************************************)
(* C3.                                                                     *)
(***************************************************************************)
\* What C3 says of a call that ended normally.
C3_Conclusion ==
    /\ out.status = "ok"
    /\ [n \in 1..Len(out.diff_rows) |-> FactIn(out.diff_rows[n])] = ExpectedFacts
    /\ Len(out.diff_rows) <= Cardinality(SharedKeys) * Len(call.compare_columns)

\* C3: for non-empty A and B and valid columns, the differences are exactly
\* one record (key, column, value from A, value from B) per shared key and
\* position of compare_columns at which the indexed rows hold unequal text,
\* in ascending key order and, within a key, in compare_columns order; so
\* there are at most |shared keys| x |compare_columns| of them.
C3_Differences == ValidCompare => C3_Conclusion

\* C3 for complete datasets.
C3_OnCompleteRows == (ValidCompare /\ CompleteRows) => C3_Conclusion

(***************************************************************************)
(* C4.                                                                     *)
(***************************************************************************)
\* What C4 says of a call.
C4_Conclusion ==
    /\ out.status = "ok"
    /\ out.only_in_1 = << >>
    /\ out.only_in_2 = << >>
    /\ out.diff_rows = << >>

\* C4: comparing a non-empty dataset with itself, under valid columns,
\* yields empty onlyA, empty onlyB and empty differences.
C4_SelfCompareEmpty == (ValidCompare /\ old[File1] = old[File2]) => C4_Conclusion

\* C4 for complete datasets.
C4_OnCompleteRows ==
    (ValidCompare /\ CompleteRows /\ old[File1] = old[File2]) => C4_Conclusion

(***************************************************************************)
(* C5.                                                                     *)
(***************************************************************************)
\* The same call with the two files swapped.
Swapped ==
    compare_csv_by_keys(old, unwritable, File2, File1, call.key_columns,
                        call.compare_columns, call.diff_output_path,
                        call.only_in_1_output, call.only_in_2_output)

\* What C5 says of a call: what it emitted as onlyA is what the swapped call
\* emits as onlyB, and the other way round.
C5_Conclusion ==
    /\ out.only_in_1 = Swapped.only_in_2
    /\ out.only_in_2 = Swapped.only_in_1

\* C5: for non-empty A and B and valid columns, onlyA of (A, B) equals onlyB
\* of (B, A) and onlyB of (A, B) equals onlyA of (B, A), as ordered sequences
\* of rows.
C5_Symmetry == ValidCompare => C5_Conclusion

\* C5 for complete datasets.
C5_OnCompleteRows == (ValidCompare /\ CompleteRows) => (C5_Conclusion /\ out.status = "ok")

(***************************************************************************)
(* C6.                                                                     *)
(***************************************************************************)
\* A filter or comparison call (or main) has returned or raised.
FileCall == pc = "returned" /\ call.op # "index_by_keys"

\* An input file of the call does not exist.
InputMissing ==
    IF call.op = "main" THEN ~old[CubaPath].exists
    ELSE IF call.op = "compare_csv_by_keys"
    THEN ~old[File1].exists \/ ~old[File2].exists
    ELSE ~old[File1].exists

\* C6 as claimed: a call that fails with a SchemaError or an I/O error (also
\* one on writing a destination) has created or overwritten no destination
\* file; so a call that wrote any output did not fail with either.
C6_AllOrNothing ==
    FileCall => ((SchemaError \/ out.status = "OSError") => disk = old)

\* C6 as amended: a call that fails with a SchemaError, or with an I/O error
\* on reading an input file, has opened, created and overwritten no
\* destination file.  (An I/O error on a later destination comes after the
\* earlier destinations were written.)
C6_SchemaErrorWritesNothing ==
    FileCall =>
        /\ (SchemaError => disk = old /\ out.opened = << >>)
        /\ (out.status = "OSError" /\ InputMissing => disk = old /\ out.opened = << >>)

\* C6's case: a filter call on a non-empty dataset that lacks the filter
\* column, given a destination that already holds a file, failed with a
\* SchemaError.
C6_Witness ==
    /\ Returned("filter_rows_by_column_value")
    /\ SchemaError
    /\ call.matched_output # NoPath
    /\ old[call.matched_output].exists
    /\ RowsA # << >>

(***************************************************************************)
(* C7.                                                                     *)
(***************************************************************************)
\* A key or compare column is absent from the header of a dataset.
SomeColumnMissing ==
    ~(/\ HeaderHas(old[File1], call.key_columns) /\ HeaderHas(old[File2], call.key_columns)
      /\ HeaderHas(old[File1], call.compare_columns)
      /\ HeaderHas(old[File2], call.compare_columns))

\* The only missing columns are key columns missing from the second dataset.
OnlySecondKeyMissing ==
    /\ HeaderHas(old[File1], call.key_columns) /\ ~HeaderHas(old[File2], call.key_columns)
    /\ HeaderHas(old[File1], call.compare_columns)
    /\ HeaderHas(old[File2], call.compare_columns)

\* The call raised a ValueError naming a missing column, having compared
\* nothing, emitted nothing and written nothing.
SchemaErrorBeforeOutput ==
    /\ SchemaError
    /\ \E i \in 1..Len(call.key_columns \o call.compare_columns) :
          /\ out.column = (call.key_columns \o call.compare_columns)[i]
          /\ ~(HeaderHas(old[File1], <<out.column>>) /\ HeaderHas(old[File2], <<out.column>>))
    /\ out.only_in_1 = << >> /\ out.only_in_2 = << >> /\ out.diff_rows = << >>
    /\ out.opened = << >>
    /\ disk = old

\* C7 as claimed: with both datasets non-empty, a missing key or compare
\* column raises a ValueError naming the column before any record of either
\* dataset is indexed or compared and before any output is written, also
\* when only a key column of the second dataset is missing.
C7_EagerSchemaError ==
    (NonEmptyCompare /\ SomeColumnMissing)
    => (SchemaErrorBeforeOutput /\ out.indexed = << >>)

\* C7 as amended: the ValueError comes before any comparison and any output;
\* it comes before any record is indexed unless the only missing columns are
\* key columns of the second dataset, and then the first dataset has been
\* indexed (and the second has not).
C7_SchemaErrorBeforeOutput ==
    (NonEmptyCompare /\ SomeColumnMissing)
    => /\ SchemaErrorBeforeOutput
       /\ out.indexed = IF OnlySecondKeyMissing THEN <<"file1">> ELSE << >>

\* C7's case: only a key column of the second dataset is missing, and the
\* call raised after indexing the first dataset.
C7_Witness ==
    /\ NonEmptyCompare
    /\ OnlySecondKeyMissing
    /\ SchemaError
    /\ out.indexed = <<"file1">>
    /\ call.only_in_1_output # NoPath

(***************************************************************************)
(* C8.                                                                     *)
(***************************************************************************)
\* A composite key with each missing value replaced by the empty text.
TextKey(k) == [i \in 1..Len(k) |-> Str(CsvText(k[i]))]

\* index_by_keys gives a row with a missing key value the key of a row whose
\* value is the empty text.
C8_IndexPart ==
    (Returned("index_by_keys") /\ out.status = "ok")
    => \A k \in DOMAIN out.index : k = TextKey(k)

\* compare_csv_by_keys does not fail on a missing value and emits no
\* difference between a missing value and the empty text.
C8_ComparePart ==
    (ValidCompare /\ NoLongRows(old[File1]) /\ NoLongRows(old[File2]))
    => /\ out.status = "ok"
       /\ \A n \in 1..Len(out.diff_rows) :
             CsvText(Get(out.diff_rows[n], Str(ValueFile1), None))
                # CsvText(Get(out.diff_rows[n], Str(ValueFile2), None))

\* filter_rows_by_column_prefix does not fail on a missing value and matches
\* it if and only if the prefix is empty.
C8_PrefixPart ==
    (/\ Returned("filter_rows_by_column_prefix")
     /\ old[File1].exists /\ RowsA # << >>
     /\ HeaderHas(old[File1], <<call.column_name>>))
    => /\ out.status = "ok"
       /\ \A i \in 1..Len(RowsA) :
             Get(RowsA[i], Str(call.column_name), Str(<< >>)) = None
             => (RowsA[i] \in SeqSet(out.matched) <=> call.prefix = << >>)

\* C8: a missing value of a used column is handled as the empty text and
\* never causes an error, in index_by_keys, compare_csv_by_keys and
\* filter_rows_by_column_prefix.
C8_MissingIsEmptyText == C8_PrefixPart /\ C8_IndexPart /\ C8_ComparePart

(***************************************************************************)
(* C9.                                                                     *)
(***************************************************************************)
\* The positions of the rows whose value in the filter column is the target.
MatchPositions ==
    {i \in 1..Len(RowsA) : Get(RowsA[i], Str(AttributeColumn), None) = Str(call.value)}

\* What C9 says of a call: it returns, when its destinations can be written,
\* matched = the rows whose column value equals the target and unmatched =
\* the others, both in input order.
C9_Conclusion ==
    /\ out.status = "ok" <=> {call.matched_output, call.unmatched_output} \cap unwritable = {}
    /\ out.status = "ok"
       => /\ out.matched = Pick(RowsA, MatchPositions)
          /\ out.unmatched = Pick(RowsA, (1..Len(RowsA)) \ MatchPositions)

\* A call of filter_rows_by_column_value on a non-empty dataset that has the
\* filter column.
ValidFilterValue ==
    /\ Returned("filter_rows_by_column_value")
    /\ old[File1].exists /\ RowsA # << >>
    /\ HeaderHas(old[File1], <<AttributeColumn>>)

\* C9: for every non-empty input with the filter column and every target,
\* filter_rows_by_column_value returns two sequences that partition the
\* input: matched is the rows whose column value equals the target,
\* unmatched the others, both in input order.
C9_Partition == ValidFilterValue => C9_Conclusion

\* C9 for datasets without a row longer than the header.
C9_OnRowsWithinHeader == (ValidFilterValue /\ NoLongRows(old[File1])) => C9_Conclusion

(***************************************************************************)
(* C10.                                                                    *)
(***************************************************************************)
\* The destination at `path` holds exactly the rows `written` under the
\* columns `header` if the call was to write it, and is what it was if not.
WrittenIff(toWrite, path, header, written) ==
    IF toWrite
    THEN /\ disk[path].exists
         /\ disk[path].header = header
         /\ SeqSet(disk[path].rows) = written
    ELSE path # NoPath => disk[path] = old[path]

\* The texts a file with the columns `header` holds for the row r.
TextRow(header, r) == WriteRow([i \in 1..Len(header) |-> Str(header[i])], r)

\* The row the differences file holds for a pair.
WrittenFact(p) ==
    [i \in 1..Len(p[1]) |-> CsvText(p[1][i])]
       \o <<call.compare_columns[p[2]],
            CsvText(ValueA(p[1], p[2])), CsvText(ValueB(p[1], p[2]))>>

\* What C10 says of a comparison call.
C10_Conclusion ==
    /\ WrittenIff(/\ ValidCompare
                  /\ call.only_in_1_output # NoPath
                  /\ OnlyExpected(RowsA, RowsB, call.key_columns) # {},
                  call.only_in_1_output, old[File1].header,
                  {TextRow(old[File1].header, r) :
                      r \in OnlyExpected(RowsA, RowsB, call.key_columns)})
    /\ WrittenIff(/\ ValidCompare
                  /\ call.only_in_2_output # NoPath
                  /\ OnlyExpected(RowsB, RowsA, call.key_columns) # {},
                  call.only_in_2_output, old[File2].header,
                  {TextRow(old[File2].header, r) :
                      r \in OnlyExpected(RowsB, RowsA, call.key_columns)})
    /\ WrittenIff(/\ ValidCompare
                  /\ call.diff_output_path # NoPath
                  /\ DiffPairs # {},
                  call.diff_output_path,
                  call.key_columns \o <<Column, ValueFile1, ValueFile2>>,
                  {WrittenFact(p) : p \in DiffPairs})

\* C10: a comparison call (whose destinations can all be written) writes a
\* destination if and only if both datasets are non-empty, a path was passed
\* for it and its result set is non-empty; otherwise the file at that path is
\* neither created nor modified.
C10_WritesIffNonEmpty ==
    (Returned("compare_csv_by_keys") /\ unwritable = {}
     /\ old[File1].exists /\ old[File2].exists)
    => C10_Conclusion

\* C10 for complete datasets.
C10_OnCompleteRows ==
    (Returned("compare_csv_by_keys") /\ unwritable = {}
     /\ old[File1].exists /\ old[File2].exists /\ CompleteRows)
    => C10_Conclusion

====
